---- MODULE Spec2Model ----
(***************************************************************************)
(* Model of the shadcn-svelte MCP server's resilient resolution core:      *)
(* the CircuitBreaker (utils/circuit-breaker.ts), the request wrapper      *)
(* handleRequest with its validation gate (handler.ts, utils/validation.ts)*)
(* and the resolver operations of utils/axios.ts.                          *)
(***************************************************************************)
EXTENDS Integers, Sequences, FiniteSets, TLC

(***************************************************************************)
(* Bounds of the model.                                                    *)
(***************************************************************************)
\* Number of concurrent callers of CircuitBreaker.execute.
NumCallers == 2
\* Invocations of the wrapped function after which no new execute() starts.
MaxCalls == 8
\* Date.now() at construction, and the last instant the clock reaches.
StartTime == 1
MaxTime == 120001

(***************************************************************************)
(* circuitBreakers.external: new CircuitBreaker({failureThreshold: 5,      *)
(* timeout: 60000}); successThreshold falls back to its default 2.         *)
(***************************************************************************)
FailureThreshold == 5
Timeout == 60000
SuccessThreshold == 2

CLOSED == "CLOSED"
OPEN == "OPEN"
HALF_OPEN == "HALF_OPEN"
CircuitBreakerState == {CLOSED, OPEN, HALF_OPEN}

VARIABLES
    external,   \* the CircuitBreaker instance: state, failures, successes, lastFailureTime
    now,        \* Date.now()
    pc,         \* per caller of execute(): "idle" or "running" (awaiting fn())
    fnCalls,    \* number of invocations of wrapped functions so far
    lastOp,     \* the breaker operation performed by the last step
    streak,     \* spy: wrapped calls that failed since the last one that succeeded
    req,        \* per request slot of the facade: the request and where it stands
    validated,  \* a call of validateAndSanitizeParams: its inputs and what it gave
    extracted,  \* a bundle being assembled: the files fetched and what came of them
    rop,        \* the resolver operation under way: its name and arguments
    rpc,        \* where it stands: "idle", "await" (a remote request is out), "done"
    stack,      \* buildDirectoryTree's activations, the innermost last
    outstanding,\* the listing requests sent and not yet answered
    listed,     \* spy: the paths listing requests were issued for, in order
    answers,    \* spy: the host's answers to them, in the same order
    rresult,    \* what the operation returned or threw
    fetched,    \* spy: the requests of a fetching operation, in order
    returned,   \* the value a fetching operation returned
    authorization, \* the Authorization header in each client's defaults
    configured, \* spy: the bearer token last configured ("" when none)
    requests    \* spy: the requests sent, each with the header it carried

Callers == 1..NumCallers

\* The fields of a freshly constructed CircuitBreaker.
NewCircuitBreaker ==
    [state |-> CLOSED, failures |-> 0, successes |-> 0, lastFailureTime |-> 0]

\* isOpen() without its "return true": an open breaker lets every call through.
isOpenNeverTrue(cb, t) ==
    IF cb.state = OPEN /\ t - cb.lastFailureTime >= Timeout
    THEN [ret |-> FALSE, cb |-> [cb EXCEPT !.state = HALF_OPEN, !.successes = 0]]
    ELSE [ret |-> FALSE, cb |-> cb]

\* isOpen() comparing the clock itself, not the time elapsed, with the timeout.
isOpenNoElapsed(cb, t) ==
    IF cb.state = OPEN
    THEN IF t >= Timeout
         THEN [ret |-> FALSE,
               cb  |-> [cb EXCEPT !.state = HALF_OPEN, !.successes = 0]]
         ELSE [ret |-> TRUE, cb |-> cb]
    ELSE [ret |-> FALSE, cb |-> cb]

\* isOpen() that never looks at the clock: once OPEN, always OPEN.
isOpenForever(cb, t) == [ret |-> cb.state = OPEN, cb |-> cb]

(***************************************************************************)
(* CircuitBreaker.isOpen(): returns the answer and the instance after the  *)
(* call (the OPEN -> HALF_OPEN move is a side effect of the check).        *)
(***************************************************************************)
isOpen(cb, t) ==
    IF cb.state = OPEN
    THEN IF t - cb.lastFailureTime >= Timeout
         THEN [ret |-> FALSE,
               cb  |-> [cb EXCEPT !.state = HALF_OPEN, !.successes = 0]]
         ELSE [ret |-> TRUE, cb |-> cb]
    ELSE [ret |-> FALSE, cb |-> cb]

\* onSuccess() closing the breaker on the first success in HALF_OPEN.
onSuccessCloseAtOnce(cb) ==
    LET c1 == [cb EXCEPT !.failures = 0] IN
    IF c1.state = HALF_OPEN
    THEN [c1 EXCEPT !.state = CLOSED, !.successes = 0]
    ELSE c1

\* onSuccess() counting towards closing in OPEN as it does in HALF_OPEN.
onSuccessCountsWhenOpen(cb) ==
    LET c1 == [cb EXCEPT !.failures = 0] IN
    IF c1.state \in {HALF_OPEN, OPEN}
    THEN LET c2 == [c1 EXCEPT !.successes = c1.successes + 1] IN
         IF c2.successes >= SuccessThreshold
         THEN [c2 EXCEPT !.state = CLOSED, !.successes = 0]
         ELSE [c2 EXCEPT !.state = HALF_OPEN]
    ELSE c1

(***************************************************************************)
(* CircuitBreaker.onSuccess()                                              *)
(***************************************************************************)
onSuccess(cb) ==
    LET c1 == [cb EXCEPT !.failures = 0] IN
    IF c1.state = HALF_OPEN
    THEN LET c2 == [c1 EXCEPT !.successes = c1.successes + 1] IN
         IF c2.successes >= SuccessThreshold
         THEN [c2 EXCEPT !.state = CLOSED, !.successes = 0]
         ELSE c2
    ELSE c1

\* onFailure() opening one failure late (> in place of >=).
onFailureLate(cb, t) ==
    LET c1 == [cb EXCEPT !.failures = cb.failures + 1, !.lastFailureTime = t] IN
    IF c1.state = CLOSED /\ c1.failures > FailureThreshold
    THEN [c1 EXCEPT !.state = OPEN]
    ELSE IF c1.state = HALF_OPEN
         THEN [c1 EXCEPT !.state = OPEN, !.successes = 0]
         ELSE c1

(***************************************************************************)
(* CircuitBreaker.onFailure()                                              *)
(***************************************************************************)
onFailure(cb, t) ==
    LET c1 == [cb EXCEPT !.failures = cb.failures + 1, !.lastFailureTime = t] IN
    IF c1.state = CLOSED /\ c1.failures >= FailureThreshold
    THEN [c1 EXCEPT !.state = OPEN]
    ELSE IF c1.state = HALF_OPEN
         THEN [c1 EXCEPT !.state = OPEN, !.successes = 0]
         ELSE c1

\* reset() that closes the breaker and leaves its counters as they are.
resetStateOnly(cb) == [cb EXCEPT !.state = CLOSED]

(***************************************************************************)
(* CircuitBreaker.reset()                                                  *)
(***************************************************************************)
reset(cb) ==
    [cb EXCEPT !.state = CLOSED, !.failures = 0, !.successes = 0,
               !.lastFailureTime = 0]

(***************************************************************************)
(* execute(fn), split at its await: the admission (isOpen, then either the *)
(* immediate throw or the call of fn) and the two ways fn() settles.       *)
(***************************************************************************)
ExecuteAdmit(c) ==
    /\ pc[c] = "idle"
    /\ fnCalls < MaxCalls
    /\ LET r == isOpen(external, now) IN
       /\ external' = r.cb
       /\ IF r.ret
          THEN /\ lastOp' = [op |-> "reject", by |-> c]
               /\ UNCHANGED <<pc, fnCalls>>
          ELSE /\ pc' = [pc EXCEPT ![c] = "running"]
               /\ fnCalls' = fnCalls + 1
               /\ lastOp' = [op |-> "admit", by |-> c]
    /\ UNCHANGED <<now, streak>>

ExecuteResolve(c) ==
    /\ pc[c] = "running"
    /\ external' = onSuccess(external)
    /\ pc' = [pc EXCEPT ![c] = "idle"]
    /\ lastOp' = [op |-> "success", by |-> c]
    /\ streak' = 0
    /\ UNCHANGED <<now, fnCalls>>

ExecuteReject(c) ==
    /\ pc[c] = "running"
    /\ external' = onFailure(external, now)
    /\ pc' = [pc EXCEPT ![c] = "idle"]
    /\ lastOp' = [op |-> "failure", by |-> c]
    /\ streak' = streak + 1
    /\ UNCHANGED <<now, fnCalls>>

Reset ==
    /\ external' = reset(external)
    /\ lastOp' = [op |-> "reset", by |-> 0]
    /\ streak' = 0
    /\ UNCHANGED <<now, pc, fnCalls>>

\* The instants at which the model samples Date.now(): one millisecond before
\* and exactly at every multiple of the timeout after StartTime, so that
\* elapsed times of 1, Timeout - 1, Timeout and more all occur.
NextInstant(t) ==
    IF (t - StartTime) % Timeout = Timeout - 1 THEN t + 1 ELSE t + (Timeout - 1)

Tick ==
    /\ NextInstant(now) <= MaxTime
    /\ now' = NextInstant(now)
    /\ lastOp' = [op |-> "tick", by |-> 0]
    /\ UNCHANGED <<external, pc, fnCalls, streak>>

(***************************************************************************)
(* Values of request fields: a JavaScript type and, for strings, the text. *)
(***************************************************************************)
Undefined == [t |-> "undefined", s |-> ""]
Str(x) == [t |-> "string", s |-> x]
Num == [t |-> "number", s |-> "42"]
Obj == [t |-> "object", s |-> ""]
Bool(text) == [t |-> "boolean", s |-> text]

(***************************************************************************)
(* validationSchemas: per field its Joi rule.  Joi.string() refuses the    *)
(* empty string; min and max bound the length.                             *)
(***************************************************************************)
StringRule(required, min, max) ==
    [type |-> "string", required |-> required, min |-> min, max |-> max]
ObjectRule == [type |-> "object", required |-> FALSE, min |-> 0, max |-> 0]
BooleanRule == [type |-> "boolean", required |-> FALSE, min |-> 0, max |-> 0]

componentNameSchema == [componentName |-> StringRule(TRUE, 1, 100)]
searchQuerySchema == [query |-> StringRule(TRUE, 1, 500)]
optionalQuerySchema == [query |-> StringRule(FALSE, 0, 500)]
blockQuerySchema ==
    [query |-> StringRule(FALSE, 0, 500), category |-> StringRule(FALSE, 0, 100)]
directoryStructureSchema ==
    [path |-> StringRule(FALSE, 0, 500), owner |-> StringRule(FALSE, 0, 100),
     repo |-> StringRule(FALSE, 0, 100), branch |-> StringRule(FALSE, 0, 100)]
blockRequestSchema ==
    [blockName |-> StringRule(TRUE, 1, 200), includeComponents |-> BooleanRule]
resourceRequestSchema == [uri |-> StringRule(TRUE, 1, 1000)]
toolRequestSchema == [name |-> StringRule(TRUE, 1, 200), arguments |-> ObjectRule]

NoSchema == [none |-> TRUE]

\* getValidationSchema(method): the schemaMap lookup; NoSchema for undefined.
getValidationSchema(method) ==
    CASE method \in {"get_component", "get_component_demo",
                     "get_component_metadata", "get_component_details",
                     "get_examples", "get_usage"} -> componentNameSchema
      [] method = "search_components" -> searchQuerySchema
      [] method = "get_themes" -> optionalQuerySchema
      [] method = "get_blocks" -> blockQuerySchema
      [] method = "get_directory_structure" -> directoryStructureSchema
      [] method = "get_block" -> blockRequestSchema
      [] method = "read_resource" -> resourceRequestSchema
      [] method \in {"get_prompt", "call_tool"} -> toolRequestSchema
      [] OTHER -> NoSchema

\* Whether value v violates rule: what schema.validate reports for one field.
\* With Joi's default `convert' a boolean rule also takes the texts true and
\* false.
Violates(rule, v) ==
    IF v.t = "undefined" THEN rule.required
    ELSE IF rule.type = "string"
         THEN \/ v.t # "string"
              \/ Len(v.s) = 0
              \/ Len(v.s) < rule.min
              \/ Len(v.s) > rule.max
         ELSE IF rule.type = "boolean"
         THEN ~(v.t = "boolean" \/ (v.t = "string" /\ v.s \in {"true", "false"}))
         ELSE v.t # rule.type

\* The value schema.validate returns for a field that passed its rule: the
\* text of a boolean is converted, everything else is kept.
Convert(rule, v) ==
    IF rule.type = "boolean" /\ v.t = "string" THEN Bool(v.s) ELSE v

Field(params, k) == IF k \in DOMAIN params THEN params[k] ELSE Undefined

(***************************************************************************)
(* validateRequest(schema, params) with abortEarly: false and              *)
(* stripUnknown: true: for each violated field the number of messages      *)
(* (error.details entries with that path), or else the known fields.       *)
(***************************************************************************)
validateRequestKeepUnknown(schema, params) ==
    LET bad == {k \in DOMAIN schema : Violates(schema[k], Field(params, k))} IN
    IF bad # {}
    THEN [ok |-> FALSE, errors |-> [k \in bad |-> 1], value |-> params]
    ELSE [ok |-> TRUE, errors |-> <<>>, value |-> params]

validateRequest(schema, params) ==
    LET bad == {k \in DOMAIN schema : Violates(schema[k], Field(params, k))} IN
    IF bad # {}
    THEN [ok |-> FALSE, errors |-> [k \in bad |-> 1], value |-> params]
    ELSE [ok |-> TRUE, errors |-> <<>>,
          value |-> [k \in DOMAIN params \cap DOMAIN schema |->
                        Convert(schema[k], params[k])]]

(***************************************************************************)
(* validateAndSanitizeParams(method, params)                               *)
(***************************************************************************)
validateAndSanitizeParams(method, params) ==
    LET schema == getValidationSchema(method) IN
    IF schema = NoSchema
    THEN [ok |-> TRUE, errors |-> <<>>, value |-> params]
    ELSE validateRequest(schema, params)

(***************************************************************************)
(* The validator called on its own: a method and its raw arguments, as     *)
(* any caller of validateAndSanitizeParams may pass them.                  *)
(***************************************************************************)
ValidatorMethods == {"get_component", "get_block", "get_blocks", "list_tools"}
ArgFields == {"componentName", "blockName", "includeComponents", "extra"}
ArgValues == {Str(""), Str("button"), Str("true"), Num, Bool("true")}
RawArgs == UNION {[fields -> ArgValues] : fields \in SUBSET ArgFields}
NoOutcome == [ok |-> FALSE, errors |-> <<>>, value |-> <<>>]

Validate ==
    /\ ~validated.done
    /\ validated' = [validated EXCEPT
                        !.done = TRUE,
                        !.out = validateAndSanitizeParams(validated.method,
                                                          validated.params)]

(***************************************************************************)
(* The Request Facade (setupHandlers).  A request is a method with its     *)
(* params; for call_tool the params are {name, arguments}, for             *)
(* read_resource {uri}.  The model keeps the name/uri and, of the tool     *)
(* arguments, the componentName.                                           *)
(***************************************************************************)
NumSlots == 2

Slots == 1..NumSlots
\* The methods whose handler returns a constant of the server.
ListMethods == {"list_tools", "list_resources", "list_resource_templates",
                "list_prompts"}
Methods == ListMethods \cup {"call_tool", "read_resource", "get_prompt"}
toolHandlers == {"get_component", "get_component_demo", "list_components",
                 "get_component_metadata", "get_directory_structure",
                 "get_block", "list_blocks"}
ResourceUris == {"resource:get_components",
                 "resource-template:get_installation_guide"}
\* The requests the model sends: each method, names and URIs that are empty,
\* known and unknown, and componentName absent, empty and a component's name.
Request(method, name, arg) == [method |-> method, name |-> name, arg |-> arg]
Requests ==
    {Request(m, "", Undefined) : m \in ListMethods}
    \cup {Request("get_prompt", "no_such_prompt", Undefined)}
    \cup {Request("read_resource", u, Undefined) :
            u \in {"", "resource:get_components", "unknown:uri"}}
    \cup {Request("call_tool", n, Undefined) : n \in {"", "no_such_tool"}}
    \cup {Request("call_tool", "get_component", a) :
            a \in {Undefined, Str(""), Str("button")}}

\* Slot 1 sends any of these requests; the other slots carry concurrent
\* traffic, each a get_component call that may succeed or fail.
RequestsOf(r) ==
    IF r = 1 THEN Requests
    ELSE {Request("call_tool", "get_component", Str("button"))}

\* request.params as the protocol layer delivers them.
ParamsOf(method, name, arg) ==
    CASE method \in {"call_tool", "get_prompt"} ->
            [name |-> Str(name),
             arguments |-> Obj]
      [] method = "read_resource" -> [uri |-> Str(name)]
      [] OTHER -> [cursor |-> Undefined]

IdleRequest ==
    [pc |-> "idle", method |-> "", name |-> "", arg |-> Undefined,
     handler |-> FALSE, resolver |-> FALSE, remote |-> 0,
     settled |-> "", result |-> "", outcomes |-> 0]


\* Tool handlers that read componentName: they call componentName.toLowerCase()
\* before the first remote request, which throws on a non-string.
\* handleRequest's catch block with the failure also reported to the breaker.
onValidationErrorCounted(cb, t) == onFailure(cb, t)

\* handleRequest's catch block when validateAndSanitizeParams throws: the error
\* is logged and rethrown; the breaker has not been entered and stays as it is.
onValidationError(cb, t) == cb

NeedsComponentName(tool) ==
    tool \in {"get_component", "get_component_demo", "get_component_metadata"}

(***************************************************************************)
(* handleRequest(method, params, handler) up to its first await: the       *)
(* validation, the outer execute()'s isOpen(), the handler's synchronous   *)
(* part and, for call_tool, the inner execute() and the tool handler's     *)
(* start up to its first remote request.                                   *)
(***************************************************************************)
HandleRequest(r, method, name, arg) ==
    /\ req[r].pc \in {"idle", "done"}
    /\ LET fresh == [IdleRequest EXCEPT !.method = method, !.name = name,
                                        !.arg = arg]
           v == validateAndSanitizeParams(method, ParamsOf(method, name, arg))
           outer == isOpen(external, now)
           inner == isOpen(outer.cb, now)
       IN
       IF ~v.ok
       THEN /\ req' = [req EXCEPT ![r] = [fresh EXCEPT !.pc = "done",
                                            !.result = "ValidationFailed"]]
            /\ external' = onValidationError(external, now)
       ELSE IF outer.ret
       THEN /\ req' = [req EXCEPT ![r] = [fresh EXCEPT !.pc = "done",
                                            !.result = "ServiceUnavailable"]]
            /\ external' = outer.cb
       ELSE IF method \in ListMethods
       THEN /\ req' = [req EXCEPT ![r] = [fresh EXCEPT !.pc = "outer",
                                            !.handler = TRUE, !.settled = "ok"]]
            /\ external' = outer.cb
       ELSE IF method = "read_resource"
       THEN /\ req' = [req EXCEPT ![r] = [fresh EXCEPT !.pc = "outer",
                          !.handler = TRUE,
                          !.settled = IF v.value.uri.s \in ResourceUris
                                      THEN "ok" ELSE "NotFound"]]
            /\ external' = outer.cb
       ELSE IF method = "get_prompt"
       THEN \* the model asks for prompts that promptHandlers does not hold
            /\ req' = [req EXCEPT ![r] = [fresh EXCEPT !.pc = "outer",
                          !.handler = TRUE, !.settled = "PromptNotFound"]]
            /\ external' = outer.cb
       ELSE \* call_tool
            IF v.value.name.s \notin toolHandlers
            THEN /\ req' = [req EXCEPT ![r] = [fresh EXCEPT !.pc = "outer",
                               !.handler = TRUE, !.settled = "ToolNotFound"]]
                 /\ external' = outer.cb
            ELSE IF inner.ret
            THEN /\ req' = [req EXCEPT ![r] = [fresh EXCEPT !.pc = "outer",
                               !.handler = TRUE,
                               !.settled = "ServiceUnavailable"]]
                 /\ external' = inner.cb
            ELSE IF NeedsComponentName(v.value.name.s) /\ arg.t # "string"
            THEN \* the tool handler throws before any remote request
                 /\ req' = [req EXCEPT ![r] = [fresh EXCEPT !.pc = "tool",
                               !.handler = TRUE, !.resolver = TRUE]]
                 /\ external' = inner.cb
            ELSE /\ req' = [req EXCEPT ![r] = [fresh EXCEPT !.pc = "tool",
                               !.handler = TRUE, !.resolver = TRUE,
                               !.remote = 1]]
                 /\ external' = inner.cb
    /\ lastOp' = [op |-> "request", by |-> r]
    /\ UNCHANGED <<now, pc, fnCalls, streak>>

(***************************************************************************)
(* The tool handler inside the inner execute() settles: onSuccess or       *)
(* onFailure of the inner execute(), then back to the outer handler.       *)
(***************************************************************************)
ToolSettles(r, ok) ==
    /\ req[r].pc = "tool"
    /\ ok => req[r].remote > 0
    /\ external' = IF ok THEN onSuccess(external) ELSE onFailure(external, now)
    /\ req' = [req EXCEPT ![r].pc = "outer",
                          ![r].settled = IF ok THEN "ok" ELSE "ToolFailed",
                          ![r].outcomes = @ + 1]
    /\ lastOp' = [op |-> IF ok THEN "success" ELSE "failure", by |-> r]
    /\ streak' = IF ok THEN 0 ELSE streak + 1
    /\ UNCHANGED <<now, pc, fnCalls>>

\* The outer execute() reporting a failure only when a remote request was made.
HandlerSettlesRemoteOnly(r) ==
    /\ req[r].pc = "outer"
    /\ LET ok == req[r].settled = "ok" IN
       /\ external' = IF ok THEN onSuccess(external)
                      ELSE IF req[r].remote > 0 THEN onFailure(external, now)
                      ELSE external
       /\ lastOp' = [op |-> IF ok THEN "success" ELSE "failure", by |-> r]
       /\ streak' = IF ok THEN 0 ELSE streak + 1
    /\ req' = [req EXCEPT ![r].pc = "done", ![r].result = req[r].settled,
                          ![r].outcomes = @ + 1]
    /\ UNCHANGED <<now, pc, fnCalls>>

(***************************************************************************)
(* The handler passed to handleRequest settles: onSuccess or onFailure of  *)
(* the outer execute(), and the request ends.                              *)
(***************************************************************************)
HandlerSettles(r) ==
    /\ req[r].pc = "outer"
    /\ LET ok == req[r].settled = "ok" IN
       /\ external' = IF ok THEN onSuccess(external) ELSE onFailure(external, now)
       /\ lastOp' = [op |-> IF ok THEN "success" ELSE "failure", by |-> r]
       /\ streak' = IF ok THEN 0 ELSE streak + 1
    /\ req' = [req EXCEPT ![r].pc = "done", ![r].result = req[r].settled,
                          ![r].outcomes = @ + 1]
    /\ UNCHANGED <<now, pc, fnCalls>>

(***************************************************************************)
(* The resolver (utils/axios.ts): operations that read the upstream        *)
(* repository through the contents API of the code host.                   *)
(*                                                                         *)
(* A path is the sequence of its '/'-separated segments, so that           *)
(* path.split('/').length is Len(path).                                    *)
(***************************************************************************)
DOCS_BASE_PATH == <<"docs", "src", "lib", "registry">>
REGISTRY_UI_PATH == DOCS_BASE_PATH \o <<"ui">>

\* buildDirectoryTree recurses only from a directory of fewer segments.
DepthCeiling == 8

\* The host sends at most MaxEntries entries in one listing...
MaxEntries == 2
\* ... and at most one for a directory of fewer than NarrowBelow segments.
NarrowBelow == 7

getFallbackComponents ==
    <<"accordion", "alert", "alert-dialog", "aspect-ratio", "avatar", "badge",
      "breadcrumb", "button", "calendar", "card", "carousel", "checkbox",
      "collapsible", "command", "context-menu", "dialog", "drawer",
      "dropdown-menu", "form", "hover-card", "input", "input-otp", "label",
      "menubar", "navigation-menu", "pagination", "popover", "progress",
      "radio-group", "resizable", "scroll-area", "select", "separator",
      "sheet", "skeleton", "slider", "sonner", "switch", "table", "tabs",
      "textarea", "toggle", "toggle-group", "tooltip">>

(***************************************************************************)
(* Array.prototype.sort() on names: ascending by code units.  The names of *)
(* the model are taken from the built-in list, which is in that order, so  *)
(* the rank of a name is its place there.                                  *)
(***************************************************************************)
Rank(name) == CHOOSE i \in DOMAIN getFallbackComponents : getFallbackComponents[i] = name

RECURSIVE Sort(_)
Sort(s) ==
    IF s = <<>> THEN <<>>
    ELSE LET m == CHOOSE i \in DOMAIN s : \A j \in DOMAIN s : Rank(s[i]) <= Rank(s[j])
         IN <<s[m]>> \o Sort(SubSeq(s, 1, m - 1) \o SubSeq(s, m + 1, Len(s)))

(***************************************************************************)
(* What the host may answer to a listing request.  An error message is     *)
(* kept as the set of those substrings the code looks for that it holds.   *)
(***************************************************************************)
EntryNames == {getFallbackComponents[i] : i \in 1..MaxEntries}
EntryTypes == {"file", "dir"}
Entry(name, type) == [name |-> name, type |-> type]

Width(path) == IF Len(path) < NarrowBelow THEN 1 ELSE MaxEntries

Listings(width) ==
    {s \in UNION {[1..n -> [name : EntryNames, type : EntryTypes]] : n \in 0..width} :
        \A i, j \in DOMAIN s : i # j => s[i].name # s[j].name}

HostMessages ==
    {{}, {"Not Found"}, {"rate limit"}, {"rate limit", "rate limit exceeded"}}

Response(settle, shape, entries, status, msg, code) ==
    [settle |-> settle, shape |-> shape, entries |-> entries,
     status |-> status, msg |-> msg, code |-> code]

NoResponse == Response("", "", <<>>, 0, {}, "")

Responses(width) ==
    {Response("resolved", "array", s, 0, {}, "") : s \in Listings(width)}
    \cup {Response("resolved", "file", <<>>, 0, {}, "")}
    \cup {Response("resolved", "message", <<>>, 0, m, "") : m \in HostMessages}
    \cup {Response("resolved", "empty", <<>>, 0, {}, "")}
    \cup {Response("resolved", "other", <<>>, 0, {}, "")}
    \cup {Response("rejected", "", <<>>, 404, {"Not Found"}, "")}
    \cup {Response("rejected", "", <<>>, 401, {}, "")}
    \cup {Response("rejected", "", <<>>, 403, m, "") : m \in HostMessages \ {{"Not Found"}}}
    \cup {Response("rejected", "", <<>>, 500, {}, "")}
    \cup {Response("rejected", "", <<>>, 0, {}, c) :
            c \in {"ECONNREFUSED", "ENOTFOUND", "ETIMEDOUT", "ECONNRESET"}}

\* An exception: `status' and `data' are those of error.response (0: none).
Error(kind, msg) == [kind |-> kind, msg |-> msg, status |-> 0, data |-> {}, code |-> ""]
RequestError(resp) ==
    [kind |-> "RequestError", msg |-> {}, status |-> resp.status,
     data |-> resp.msg, code |-> resp.code]
NoError == Error("", {})

RateLimitText == {"rate limit", "rate limit exceeded"}

(***************************************************************************)
(* getAvailableComponents, from the answer to its one listing request to   *)
(* what it returns or throws.                                              *)
(***************************************************************************)
Returned(v) == [thrown |-> FALSE, value |-> v, err |-> NoError]
Thrown(e) == [thrown |-> TRUE, value |-> <<>>, err |-> e]

DirNames(entries) ==
    LET F[i \in 0..Len(entries)] ==
            IF i = 0 THEN <<>>
            ELSE IF entries[i].type = "dir" THEN Append(F[i - 1], entries[i].name)
            ELSE F[i - 1]
    IN F[Len(entries)]

getAvailableComponentsTry(resp) ==
    IF resp.settle = "rejected" THEN Thrown(RequestError(resp))
    ELSE IF resp.shape # "array" THEN Thrown(Error("InvalidResponse", {}))
    ELSE IF DirNames(resp.entries) = <<>> THEN Thrown(Error("NoComponents", {}))
    ELSE Returned(Sort(DirNames(resp.entries)))

getAvailableComponentsCatchAll(e) == Returned(getFallbackComponents)

getAvailableComponentsCatch(e) ==
    IF e.status # 0
    THEN IF e.status = 403 /\ "rate limit" \in e.data
         THEN Thrown(Error("RateLimited", RateLimitText \cup e.data))
         ELSE IF e.status = 404 THEN Thrown(Error("NotFound", {}))
         ELSE IF e.status = 401 THEN Thrown(Error("AuthFailed", {}))
         ELSE Thrown(Error("RemoteError", {"GitHub API error"} \cup e.data))
    ELSE IF e.code \in {"ECONNREFUSED", "ENOTFOUND", "ETIMEDOUT"}
         THEN Thrown(Error("NetworkError", e.msg))
         ELSE Returned(getFallbackComponents)

getAvailableComponents(resp) ==
    LET t == getAvailableComponentsTry(resp)
    IN IF t.thrown THEN getAvailableComponentsCatch(t.err) ELSE t

\* handleListComponents: sorts again, and wraps a failure in its own message.
handleListComponents(resp) ==
    LET r == getAvailableComponents(resp)
    IN IF r.thrown THEN Thrown([r.err EXCEPT !.status = 0, !.data = {}, !.code = ""])
       ELSE Returned(Sort(r.value))

(***************************************************************************)
(* buildDirectoryTree.  A node of the tree it returns; `children' maps the *)
(* names of a directory's entries to their nodes.                          *)
(***************************************************************************)
Node(path, type, error, note, children) ==
    [path |-> path, type |-> type, error |-> error, note |-> note, children |-> children]
NoNode == Node(<<>>, "", "", "", <<>>)
FileNode(path) == Node(path, "file", "", "", <<>>)
DirectoryNode(path, children) == Node(path, "directory", "", "", children)
FailedNode(path) == Node(path, "directory", "Failed to fetch contents", "", <<>>)

\* result.children[name] = node
SetChild(children, name, node) ==
    [n \in (DOMAIN children) \cup {name} |-> IF n = name THEN node ELSE children[n]]

getBasicSvelteStructure ==
    LET Sub(name) == Node(Append(DOCS_BASE_PATH, name), "directory", "",
                          "description", <<>>)
    IN Node(DOCS_BASE_PATH, "directory", "",
            "Basic structure provided due to API limitations",
            [n \in {"ui", "examples", "blocks", "hooks", "lib"} |-> Sub(n)])

(***************************************************************************)
(* One activation of buildDirectoryTree: the directory it lists, the       *)
(* entries its loop has yet to visit, the children gathered so far, and    *)
(* the entry whose sub-tree it awaits.                                     *)
(***************************************************************************)
Frame(path) == [path |-> path, todo |-> <<>>, children |-> <<>>, cur |-> Entry("", "")]

\* What a step of the builder leaves: the activations, the listing request
\* it issued (if any), and what the outermost activation returned or threw.
\* The recursive calls fanned out: with the listing of `path' those of the
\* directories that follow it in its parent's listing are issued as well.
GoingFannedOut(stk, path) ==
    LET todo == stk[Len(stk) - 1].todo
        dirs == SelectSeq(todo, LAMBDA item : item.type = "dir")
    IN [stack |-> stk,
        issue |-> <<path>> \o [i \in DOMAIN dirs |->
                                  Append(stk[Len(stk) - 1].path, dirs[i].name)],
        ended |-> FALSE, thrown |-> FALSE, value |-> NoNode, err |-> NoError]

Going(stk, path) == [stack |-> stk, issue |-> <<path>>, ended |-> FALSE,
                     thrown |-> FALSE, value |-> NoNode, err |-> NoError]
Ended(node) == [stack |-> <<>>, issue |-> <<>>, ended |-> TRUE,
                thrown |-> FALSE, value |-> node, err |-> NoError]
Failed(e) == [stack |-> <<>>, issue |-> <<>>, ended |-> TRUE,
              thrown |-> TRUE, value |-> NoNode, err |-> e]

Pop(stk) == SubSeq(stk, 1, Len(stk) - 1)
Top(stk) == stk[Len(stk)]
SetTop(stk, f) == [stk EXCEPT ![Len(stk)] = f]

\* The depth guard of the recursion.
WithinCeilingInclusive(path) == Len(path) <= DepthCeiling
WithinCeiling(path) == Len(path) < DepthCeiling

RECURSIVE Loop(_), Return(_, _)

\* The for loop over the entries, up to the next await or to its end.
Loop(stk) ==
    LET f == Top(stk) IN
    IF f.todo = <<>> THEN Return(stk, DirectoryNode(f.path, f.children))
    ELSE LET item == Head(f.todo)
             g == [f EXCEPT !.todo = Tail(f.todo)]
             child == Append(f.path, item.name)
         IN IF item.type = "file"
            THEN Loop(SetTop(stk, [g EXCEPT !.children =
                                      SetChild(g.children, item.name, FileNode(child))]))
            ELSE IF item.type = "dir" /\ WithinCeiling(f.path)
            THEN Going(Append(SetTop(stk, [g EXCEPT !.cur = item]), Frame(child)), child)
            ELSE Loop(SetTop(stk, g))

\* The innermost activation returns `node' to the one that awaits it.
Return(stk, node) ==
    IF Len(stk) = 1 THEN Ended(node)
    ELSE LET p == stk[Len(stk) - 1]
         IN Loop(SetTop(Pop(stk), [p EXCEPT !.children =
                                      SetChild(p.children, p.cur.name, node)]))

\* The catch around the recursive call.
SubTreeFailedAborts(stk, e) == Failed(e)
SubTreeFailed(stk, e) ==
    LET p == stk[Len(stk) - 1]
    IN Loop(SetTop(Pop(stk), [p EXCEPT !.children =
                SetChild(p.children, p.cur.name, FailedNode(Append(p.path, p.cur.name)))]))

\* The innermost activation throws `e'.
Throw(stk, e) == IF Len(stk) = 1 THEN Failed(e) ELSE SubTreeFailed(stk, e)

\* The outer catch of buildDirectoryTree: what it throws for the caught `e'.
buildDirectoryTreeCatch(e) ==
    IF "rate limit" \in e.msg \/ "GitHub API error" \in e.msg THEN e
    ELSE IF e.status # 0
    THEN IF e.status = 404 THEN Error("NotFound", {})
         ELSE IF e.status = 403
         THEN IF "rate limit" \in e.data
              THEN Error("RateLimited", RateLimitText \cup e.data)
              ELSE Error("Forbidden", e.data)
         ELSE IF e.status = 401 THEN Error("AuthFailed", {})
         ELSE Error("RemoteError", {"GitHub API error"} \cup e.data)
    ELSE e

\* The innermost activation receives the answer to its listing request.
buildDirectoryTree(stk, resp) ==
    LET f == Top(stk) IN
    IF resp.settle = "rejected" THEN Throw(stk, buildDirectoryTreeCatch(RequestError(resp)))
    ELSE IF resp.shape = "empty"
    THEN Throw(stk, buildDirectoryTreeCatch(Error("NoData", {})))
    ELSE IF resp.shape = "message"
    THEN IF "rate limit exceeded" \in resp.msg
         THEN Throw(stk, buildDirectoryTreeCatch(
                         Error("RateLimited", RateLimitText \cup resp.msg)))
         ELSE IF "Not Found" \in resp.msg
         THEN Throw(stk, buildDirectoryTreeCatch(Error("NotFound", {})))
         ELSE Throw(stk, buildDirectoryTreeCatch(
                         Error("RemoteError", {"GitHub API error"} \cup resp.msg)))
    ELSE IF resp.shape = "file" THEN Return(stk, FileNode(f.path))
    ELSE IF resp.shape # "array"
    THEN Throw(stk, buildDirectoryTreeCatch(Error("UnexpectedResponse", {})))
    ELSE Loop(SetTop(stk, [f EXCEPT !.todo = resp.entries]))

\* buildDirectoryTreeWithFallback: what it makes of the builder's failure.
buildDirectoryTreeWithFallback(path, out) ==
    IF out.ended /\ out.thrown /\ "rate limit" \in out.err.msg /\ path = DOCS_BASE_PATH
    THEN Ended(getBasicSvelteStructure)
    ELSE out

\* handleGetDirectoryStructure: the path it builds for its `path' argument
\* (<<>>: absent or the empty string).
NoPath == <<>>
PathOrDefault(path) == IF path = NoPath THEN REGISTRY_UI_PATH ELSE path

(***************************************************************************)
(* The resolver's operations as steps: a call issues its first listing     *)
(* request; each answer of the host runs the code up to the next request   *)
(* or to the end of the call.                                              *)
(***************************************************************************)
Operation(name, path) == [name |-> name, path |-> path]
NoOperation == Operation("", NoPath)

Result(status, components, tree, err) ==
    [status |-> status, components |-> components, tree |-> tree, err |-> err]
NoResult == Result("", <<>>, NoNode, NoError)

\* The paths get_directory_structure is called with.
LongPath == REGISTRY_UI_PATH \o <<"button", "parts", "icons", "svg">>
PathArgs ==
    {NoPath, DOCS_BASE_PATH}
    \cup {SubSeq(LongPath, 1, n) : n \in (DepthCeiling - 1)..(DepthCeiling + 1)}

ListComponents ==
    /\ rpc = "idle"
    /\ rop' = Operation("list_components", NoPath)
    /\ rpc' = "await"
    /\ outstanding' = {REGISTRY_UI_PATH}
    /\ listed' = <<REGISTRY_UI_PATH>>
    /\ UNCHANGED <<stack, answers, rresult>>

ListComponentsSettles(resp) ==
    /\ rpc = "await" /\ rop.name = "list_components"
    /\ LET r == handleListComponents(resp)
       IN rresult' = IF r.thrown THEN Result("failed", <<>>, NoNode, r.err)
                     ELSE Result("ok", r.value, NoNode, NoError)
    /\ answers' = Append(answers, resp)
    /\ rpc' = "done"
    /\ outstanding' = {}
    /\ UNCHANGED <<rop, stack, listed>>

GetDirectoryStructure(path) ==
    /\ rpc = "idle"
    /\ rop' = Operation("get_directory_structure", path)
    /\ rpc' = "await"
    /\ stack' = <<Frame(PathOrDefault(path))>>
    /\ outstanding' = {PathOrDefault(path)}
    /\ listed' = <<PathOrDefault(path)>>
    /\ UNCHANGED <<answers, rresult>>

DirectoryListingSettles(resp) ==
    /\ rpc = "await" /\ rop.name = "get_directory_structure"
    /\ LET out == buildDirectoryTreeWithFallback(PathOrDefault(rop.path),
                                                 buildDirectoryTree(stack, resp))
       IN /\ stack' = out.stack
          /\ IF out.ended
             THEN /\ rpc' = "done"
                  /\ outstanding' = {}
                  /\ listed' = listed
                  /\ rresult' = IF out.thrown
                                THEN Result("failed", <<>>, NoNode, out.err)
                                ELSE Result("ok", <<>>, out.value, NoError)
             ELSE /\ rpc' = "await"
                  /\ outstanding' = {out.issue[i] : i \in DOMAIN out.issue}
                  /\ listed' = listed \o out.issue
                  /\ rresult' = rresult
    /\ answers' = Append(answers, resp)
    /\ UNCHANGED rop

(***************************************************************************)
(* The resolver's operations that fetch files.  Each is written as what it *)
(* does given the answers received so far (`ans', in the order of its      *)
(* requests): it awaits its next request, returns or throws.               *)
(***************************************************************************)
REGISTRY_EXAMPLES_PATH == DOCS_BASE_PATH \o <<"examples">>
REGISTRY_BLOCKS_PATH == DOCS_BASE_PATH \o <<"blocks">>

\* String.prototype.includes and endsWith.
Includes(s, sub) ==
    \E i \in 1..(Len(s) - Len(sub) + 1) : SubSeq(s, i, i + Len(sub) - 1) = sub
EndsWith(s, suffix) ==
    Len(suffix) <= Len(s) /\ SubSeq(s, Len(s) - Len(suffix) + 1, Len(s)) = suffix

\* String.prototype.toLowerCase, on the names the model calls with.
toLowerCase(s) ==
    IF s = "Button" THEN "button" ELSE IF s = "Calendar" THEN "calendar" ELSE s

\* A request: the client ("api": githubApi, "raw": githubRaw) and the path.
Fetch(endpoint, path) == [endpoint |-> endpoint, path |-> path]

\* What the host may answer to a raw-file request: the file (JSON or other
\* text), an error page delivered as a response, or a rejection.
RawResponses ==
    {Response("resolved", shape, <<>>, 200, {}, "") : shape \in {"text", "json"}}
    \cup {Response("resolved", "text", <<>>, 404, {"Not Found"}, "")}
    \cup {Response("rejected", "", <<>>, 404, {"Not Found"}, "")}
    \cup {Response("rejected", "", <<>>, 403, RateLimitText, "")}
    \cup {Response("rejected", "", <<>>, 0, {}, "ECONNREFUSED")}

\* The entries of a component's or a block's directory.
FileNames == {"button.svelte", "index.ts", "README.md"}
FileListings(width) ==
    {Response("resolved", "array", s, 0, {}, "") :
        s \in {t \in UNION {[1..n -> [name : FileNames, type : EntryTypes]] :
                              n \in 0..width} :
                  \A i, j \in DOMAIN t : i # j => t[i].name # t[j].name}}

Await(fetch) == [ended |-> FALSE, thrown |-> FALSE, fetch |-> fetch,
                 value |-> <<>>, err |-> NoError]
Done(value) == [ended |-> TRUE, thrown |-> FALSE, fetch |-> Fetch("", <<>>),
                value |-> value, err |-> NoError]
Raise(e) == [ended |-> TRUE, thrown |-> TRUE, fetch |-> Fetch("", <<>>),
             value |-> <<>>, err |-> e]

Ok200(resp) == resp.settle = "resolved" /\ resp.status = 200

(***************************************************************************)
(* getComponentDemo                                                        *)
(***************************************************************************)
demoPatternsPlainFirst(lower) ==
    <<REGISTRY_EXAMPLES_PATH \o <<lower \o ".svelte">>,
      REGISTRY_EXAMPLES_PATH \o <<lower \o "-demo.svelte">>,
      REGISTRY_EXAMPLES_PATH \o <<lower \o "-01.svelte">> >>

demoPatterns(lower) ==
    <<REGISTRY_EXAMPLES_PATH \o <<lower \o "-demo.svelte">>,
      REGISTRY_EXAMPLES_PATH \o <<lower \o ".svelte">>,
      REGISTRY_EXAMPLES_PATH \o <<lower \o "-01.svelte">> >>

getComponentDemo(componentName, ans) ==
    IF componentName.t # "string" THEN Raise(Error("NotFound", {}))
    ELSE LET patterns == demoPatterns(toLowerCase(componentName.s))
         IN IF ans # <<>> /\ Ok200(ans[Len(ans)])
            THEN Done([demo |-> patterns[Len(ans)], content |-> ans[Len(ans)].shape])
            ELSE IF Len(ans) < Len(patterns)
            THEN Await(Fetch("raw", patterns[Len(ans) + 1]))
            ELSE Raise(Error("NotFound", {}))

(***************************************************************************)
(* getComponentMetadata and handleGetComponentMetadata                     *)
(***************************************************************************)
Metadata(kind, componentName) == [metadata |-> kind, name |-> componentName]
Null == [metadata |-> "null", name |-> Undefined]

metaJsonFailedRethrows(componentName) == Null
metaJsonFailed(componentName) == Metadata("basic", componentName)

getComponentMetadata(componentName, ans) ==
    IF componentName.t # "string" THEN Done(Null)
    ELSE IF ans = <<>>
    THEN Await(Fetch("raw", REGISTRY_UI_PATH \o
                            <<toLowerCase(componentName.s), "meta.json">>))
    ELSE IF ans[1].settle = "resolved" /\ ans[1].shape = "json"
    THEN Done(Metadata("parsed", componentName))
    ELSE Done(metaJsonFailed(componentName))

handleGetComponentMetadata(componentName, ans) ==
    LET r == getComponentMetadata(componentName, ans)
    IN IF r.ended /\ ~r.thrown /\ r.value = Null
       THEN Raise(Error("MetadataNotFound", {}))
       ELSE r

(***************************************************************************)
(* The loop over a listing's entries, shared in shape by getComponentSource *)
(* and getBlockCode: each wanted file is fetched, each directory is listed  *)
(* when `descend' and its files fetched, in the order of the listing; the   *)
(* first rejected request ends the loop with its error.  `rest' is the      *)
(* answers not yet consumed, `files' the paths of the files gathered.       *)
(***************************************************************************)
Wanted(name, suffixes) == suffixes = {} \/ \E s \in suffixes : EndsWith(name, s)

Walked(state, fetch, err, files, rest) ==
    [state |-> state, fetch |-> fetch, err |-> err, files |-> files, rest |-> rest]

RECURSIVE Walk(_, _, _, _, _, _)
Walk(dir, items, rest, suffixes, descend, files) ==
    IF items = <<>> THEN Walked("done", Fetch("", <<>>), NoError, files, rest)
    ELSE LET item == Head(items)
             path == Append(dir, item.name)
         IN IF item.type = "file" /\ Wanted(item.name, suffixes)
            THEN IF rest = <<>>
                 THEN Walked("await", Fetch("raw", path), NoError, files, rest)
                 ELSE IF rest[1].settle = "rejected"
                 THEN Walked("raise", Fetch("", <<>>), RequestError(rest[1]), files, rest)
                 ELSE Walk(dir, Tail(items), Tail(rest), suffixes, descend,
                           Append(files, path))
            ELSE IF item.type = "dir" /\ descend
            THEN IF rest = <<>>
                 THEN Walked("await", Fetch("api", path), NoError, files, rest)
                 ELSE IF rest[1].settle = "rejected"
                 THEN Walked("raise", Fetch("", <<>>), RequestError(rest[1]), files, rest)
                 ELSE IF rest[1].shape = "array"
                 THEN LET sub == Walk(path, rest[1].entries, Tail(rest), {}, FALSE, files)
                      IN IF sub.state = "done"
                         THEN Walk(dir, Tail(items), sub.rest, suffixes, descend, sub.files)
                         ELSE sub
                 ELSE Walk(dir, Tail(items), Tail(rest), suffixes, descend, files)
            ELSE Walk(dir, Tail(items), rest, suffixes, descend, files)

Bundle(name, type, totalFiles, files) ==
    [name |-> name, type |-> type, totalFiles |-> totalFiles, files |-> files]

(***************************************************************************)
(* getComponentSource                                                      *)
(***************************************************************************)
getComponentSourceCatch(e) == IF e.status = 404 THEN Error("NotFound", {}) ELSE e

getComponentSource(componentName, ans) ==
    IF componentName.t # "string" THEN Raise(Error("TypeError", {}))
    ELSE LET componentPath == Append(REGISTRY_UI_PATH, toLowerCase(componentName.s))
         IN IF ans = <<>> THEN Await(Fetch("api", componentPath))
            ELSE IF ans[1].settle = "rejected"
            THEN Raise(getComponentSourceCatch(RequestError(ans[1])))
            ELSE IF ans[1].shape = "empty"
            THEN Raise(getComponentSourceCatch(Error("NotFound", {})))
            ELSE IF ans[1].shape = "array"
            THEN LET w == Walk(componentPath, ans[1].entries, Tail(ans),
                               {".svelte", ".ts"}, FALSE, <<>>)
                 IN IF w.state = "await" THEN Await(w.fetch)
                    ELSE IF w.state = "raise" THEN Raise(getComponentSourceCatch(w.err))
                    ELSE Done(Bundle(componentName.s, "svelte-component",
                                     Len(ans[1].entries), w.files))
            ELSE Done(Bundle(componentName.s, "svelte-component", 0, <<>>))

(***************************************************************************)
(* getBlockCode                                                            *)
(***************************************************************************)
getBlockCodeCatch(e) == IF e.status = 404 THEN Error("NotFound", {}) ELSE e

getBlockCode(blockName, includeComponents, ans) ==
    LET blockPath == Append(REGISTRY_BLOCKS_PATH, blockName)
    IN IF ans = <<>>
       THEN Await(Fetch("raw", Append(REGISTRY_BLOCKS_PATH, blockName \o ".svelte")))
       ELSE IF Ok200(ans[1]) THEN Done(Bundle(blockName, "simple", 0, <<>>))
       ELSE IF Len(ans) = 1 THEN Await(Fetch("api", blockPath))
       ELSE IF ans[2].settle = "rejected"
       THEN Raise(getBlockCodeCatch(RequestError(ans[2])))
       ELSE IF ans[2].shape = "empty"
       THEN Raise(getBlockCodeCatch(Error("NotFound", {})))
       ELSE IF ans[2].shape = "array"
       THEN LET w == Walk(blockPath, ans[2].entries, SubSeq(ans, 3, Len(ans)),
                          {}, includeComponents, <<>>)
            IN IF w.state = "await" THEN Await(w.fetch)
               ELSE IF w.state = "raise" THEN Raise(getBlockCodeCatch(w.err))
               ELSE Done(Bundle(blockName, "complex", Len(ans[2].entries), w.files))
       ELSE Done(Bundle(blockName, "complex", 0, <<>>))

(***************************************************************************)
(* getAvailableBlocks                                                      *)
(***************************************************************************)
\* The order of the characters of the model's names, as localeCompare and
\* the default sort have it.
Alphabet == "-.0123456789_abcdefghijklmnopqrstuvwxyz"
CharRank(c) == CHOOSE i \in 1..Len(Alphabet) : SubSeq(Alphabet, i, i) = c

\* a.localeCompare(b) <= 0
RECURSIVE NotAfter(_, _)
NotAfter(a, b) ==
    IF a = "" THEN TRUE
    ELSE IF b = "" THEN FALSE
    ELSE IF SubSeq(a, 1, 1) = SubSeq(b, 1, 1)
    THEN NotAfter(SubSeq(a, 2, Len(a)), SubSeq(b, 2, Len(b)))
    ELSE CharRank(SubSeq(a, 1, 1)) < CharRank(SubSeq(b, 1, 1))

\* blocks[key].sort((a, b) => a.name.localeCompare(b.name)): stable.
RECURSIVE SortByName(_)
SortByName(s) ==
    IF s = <<>> THEN <<>>
    ELSE LET m == CHOOSE i \in DOMAIN s :
                    /\ \A j \in DOMAIN s : NotAfter(s[i].name, s[j].name)
                    /\ \A j \in 1..(i - 1) : s[j].name # s[i].name
         IN <<s[m]>> \o SortByName(SubSeq(s, 1, m - 1) \o SubSeq(s, m + 1, Len(s)))

\* item.name.replace('.svelte', '')
StripSvelte(s) ==
    IF Includes(s, ".svelte")
    THEN LET i == CHOOSE k \in 1..Len(s) :
                    /\ SubSeq(s, k, k + 6) = ".svelte"
                    /\ \A h \in 1..(k - 1) : SubSeq(s, h, h + 6) # ".svelte"
         IN SubSeq(s, 1, i - 1) \o SubSeq(s, i + 7, Len(s))
    ELSE s

\* Object.keys(blocks)
Categories ==
    <<"calendar", "dashboard", "login", "sidebar", "authentication", "charts", "other">>

CategoryOfAuthFirst(name) ==
    IF Includes(name, "auth") THEN "authentication"
    ELSE IF Includes(name, "calendar") THEN "calendar"
    ELSE IF Includes(name, "dashboard") THEN "dashboard"
    ELSE IF Includes(name, "login") \/ Includes(name, "signin") THEN "login"
    ELSE IF Includes(name, "sidebar") THEN "sidebar"
    ELSE IF Includes(name, "chart") \/ Includes(name, "graph") THEN "charts"
    ELSE "other"

\* The if-else chain on item.name.
CategoryOf(name) ==
    IF Includes(name, "calendar") THEN "calendar"
    ELSE IF Includes(name, "dashboard") THEN "dashboard"
    ELSE IF Includes(name, "login") \/ Includes(name, "signin") THEN "login"
    ELSE IF Includes(name, "sidebar") THEN "sidebar"
    ELSE IF Includes(name, "auth") THEN "authentication"
    ELSE IF Includes(name, "chart") \/ Includes(name, "graph") THEN "charts"
    ELSE "other"

BlockInfo(item) ==
    [name |-> StripSvelte(item.name),
     type |-> IF item.type = "file" THEN "simple" ELSE "complex",
     item |-> item.name]

\* blocks[key] after the loop and the sort.
BlocksIn(key, items) ==
    LET F[i \in 0..Len(items)] ==
            IF i = 0 THEN <<>>
            ELSE IF CategoryOf(items[i].name) = key
            THEN Append(F[i - 1], BlockInfo(items[i]))
            ELSE F[i - 1]
    IN SortByName(F[Len(items)])

\* Object.keys(blocks).filter(key => blocks[key].length > 0)
NonEmptyCategories(items) ==
    SelectSeq(Categories, LAMBDA key : BlocksIn(key, items) # <<>>)

\* The lower-case names every object inherits a property under.
InheritedKeys == {"constructor", "__proto__"}

getAvailableBlocksCatch(e) == IF e.status = 404 THEN Error("NotFound", {}) ELSE e

\* The branch taken when a category is given: blocks[categoryLower] is an
\* own list, an inherited property (Object, whose length is 1, or the
\* prototype, which has none: not a list, `isList' is FALSE), or undefined.
byCategory(category, items) ==
    LET categoryLower == toLowerCase(category)
    IN IF \E i \in DOMAIN Categories : Categories[i] = categoryLower
       THEN [category |-> category, isList |-> TRUE,
             blocks |-> BlocksIn(categoryLower, items),
             total |-> Len(BlocksIn(categoryLower, items)),
             availableCategories |-> <<>>]
       ELSE IF categoryLower \in InheritedKeys
       THEN [category |-> category, isList |-> FALSE, blocks |-> <<>>,
             total |-> IF categoryLower = "constructor" THEN 1 ELSE Undefined,
             availableCategories |-> <<>>]
       ELSE [category |-> category, isList |-> TRUE, blocks |-> <<>>, total |-> 0,
             availableCategories |-> NonEmptyCategories(items)]

getAvailableBlocks(category, ans) ==
    IF ans = <<>> THEN Await(Fetch("api", REGISTRY_BLOCKS_PATH))
    ELSE IF ans[1].settle = "rejected"
    THEN Raise(getAvailableBlocksCatch(RequestError(ans[1])))
    ELSE IF ans[1].shape # "array"
    THEN Raise(getAvailableBlocksCatch(Error("UnexpectedResponse", {})))
    ELSE IF category.t = "string" /\ category.s # ""
    THEN Done(byCategory(category.s, ans[1].entries))
    ELSE LET blocks == [key \in {Categories[i] : i \in DOMAIN Categories} |->
                           BlocksIn(key, ans[1].entries)]
             Flat[i \in 0..Len(Categories)] ==
                 IF i = 0 THEN <<>> ELSE Flat[i - 1] \o blocks[Categories[i]]
         IN Done([categories |-> blocks,
                  totalBlocks |-> Len(Flat[Len(Categories)]),
                  availableCategories |-> NonEmptyCategories(ans[1].entries)])

(***************************************************************************)
(* The fetching operations as steps.                                       *)
(***************************************************************************)
Call(name, arg, flag) == [name |-> name, path |-> NoPath, arg |-> arg, flag |-> flag]

ComponentNames == {Str("button"), Str("Button"), Undefined}
CategoryArgs ==
    {Undefined, Str(""), Str("calendar"), Str("Calendar"), Str("charts"),
     Str("products"), Str("constructor")}

Calls ==
    {Call(name, arg, FALSE) :
        name \in {"getComponentSource", "getComponentDemo", "getComponentMetadata"},
        arg \in ComponentNames}
    \cup {Call("getBlockCode", Str("login-01"), flag) : flag \in BOOLEAN}
    \cup {Call("getAvailableBlocks", arg, FALSE) : arg \in CategoryArgs}

Run(op, ans) ==
    CASE op.name = "getComponentSource" -> getComponentSource(op.arg, ans)
      [] op.name = "getComponentDemo" -> getComponentDemo(op.arg, ans)
      [] op.name = "getComponentMetadata" -> handleGetComponentMetadata(op.arg, ans)
      [] op.name = "getBlockCode" -> getBlockCode(op.arg.s, op.flag, ans)
      [] op.name = "getAvailableBlocks" -> getAvailableBlocks(op.arg, ans)

\* The entries of the blocks directory.
BlockEntries ==
    {Entry("calendar-02", "dir"), Entry("calendar-01.svelte", "file"),
     Entry("dashboard-calendar", "dir"), Entry("auth-dashboard.svelte", "file"),
     Entry("signin-01.svelte", "file"), Entry("sidebar-login", "dir"),
     Entry("auth-sidebar", "dir"), Entry("authgraph.svelte", "file"),
     Entry("chart-01", "dir"), Entry("hero.svelte", "file"), Entry("hero", "dir")}

BlockListings ==
    {Response("resolved", "array", s, 0, {}, "") :
        s \in {t \in UNION {[1..n -> BlockEntries] : n \in 0..MaxEntries} :
                  \A i, j \in DOMAIN t : i # j => t[i] # t[j]}}

\* What the host may answer to the request `fetch' of the operation `op'.
AnswersTo(op, fetch) ==
    IF fetch.endpoint = "raw" THEN RawResponses
    ELSE IF op.name = "getAvailableBlocks" THEN Responses(0) \cup BlockListings
    ELSE Responses(0) \cup
         FileListings(IF Len(fetch.path) > Len(REGISTRY_UI_PATH) + 1 THEN 1
                      ELSE MaxEntries)

\* What the operation leaves when it ends or awaits its next request.
Proceed(out) ==
    /\ rpc' = IF out.ended THEN "done" ELSE "await"
    /\ outstanding' = IF out.ended THEN {} ELSE {out.fetch.path}
    /\ fetched' = IF out.ended THEN fetched ELSE Append(fetched, out.fetch)
    /\ returned' = IF out.ended /\ ~out.thrown THEN out.value ELSE returned
    /\ rresult' = IF ~out.ended THEN rresult
                  ELSE IF out.thrown THEN Result("failed", <<>>, NoNode, out.err)
                  ELSE Result("ok", <<>>, NoNode, NoError)

CallOperation(op) ==
    /\ rpc = "idle"
    /\ rop' = op
    /\ Proceed(Run(op, <<>>))
    /\ UNCHANGED <<stack, listed, answers>>

FetchSettles(resp) ==
    /\ rpc = "await" /\ fetched # <<>>
    /\ answers' = Append(answers, resp)
    /\ Proceed(Run(rop, Append(answers, resp)))
    /\ UNCHANGED <<rop, stack, listed>>

(***************************************************************************)
(* The Extractor.  A file's text is a sequence of statements, each on      *)
(* lines of its own: an import (the names it binds, whether they stand in  *)
(* braces, the number of line breaks inside the braces, the specifier), a  *)
(* markup tag, or nothing the extractor looks for.                         *)
(***************************************************************************)
MaxFiles == 2

ImportStatement(names, braces, breaks, specifier) ==
    [kind |-> "import", names |-> names, braces |-> braces, breaks |-> breaks,
     specifier |-> specifier]
TagLine(name) ==
    [kind |-> "tag", names |-> <<name>>, braces |-> FALSE, breaks |-> 0,
     specifier |-> ""]

LowerCase == "abcdefghijklmnopqrstuvwxyz"
UpperCase == "ABCDEFGHIJKLMNOPQRSTUVWXYZ"
Digits == "0123456789"
OneOf(c, chars) == \E i \in 1..Len(chars) : SubSeq(chars, i, i) = c
StartsWith(s, prefix) ==
    Len(prefix) <= Len(s) /\ SubSeq(s, 1, Len(prefix)) = prefix

\* [...new Set(list)]: the first occurrence of each element, in order.
Unique(list) ==
    SelectSeq([i \in DOMAIN list |->
                  [v |-> list[i],
                   first |-> \A j \in 1..(i - 1) : list[j] # list[i]]],
              LAMBDA e : e.first)
Values(list) == [i \in DOMAIN list |-> list[i].v]
Flatten(lists) ==
    LET F[i \in 0..Len(lists)] == IF i = 0 THEN <<>> ELSE F[i - 1] \o lists[i]
    IN F[Len(lists)]

\* /import\s+.*?\s+from\s+['"]([@\w\/\-\.]+)['"]/g on one statement: `.'
\* matches no line break, the specifier is made of the class's characters.
importRegex(st) ==
    /\ st.kind = "import"
    /\ st.breaks = 0
    /\ st.specifier # ""
    /\ \A i \in 1..Len(st.specifier) :
          OneOf(SubSeq(st.specifier, i, i),
                "@/-." \o "_" \o LowerCase \o UpperCase \o Digits)

extractDependencies(code) ==
    LET kept == SelectSeq(code, LAMBDA st :
                    /\ importRegex(st)
                    /\ ~StartsWith(st.specifier, "./")
                    /\ ~StartsWith(st.specifier, "../")
                    /\ ~StartsWith(st.specifier, "$")
                    /\ ~StartsWith(st.specifier, "/"))
    IN Values(Unique([i \in DOMAIN kept |-> kept[i].specifier]))

\* imp[0] && imp[0] === imp[0].toUpperCase()
isComponentName(imp) == imp # "" /\ ~OneOf(SubSeq(imp, 1, 1), LowerCase)

\* The capture of /<([A-Z][a-zA-Z0-9]*)/ in a tag: the letters and digits
\* that the name starts with, if the first is an upper-case letter.
RECURSIVE AlnumPrefix(_)
AlnumPrefix(name) ==
    IF name = "" \/ ~OneOf(SubSeq(name, 1, 1), LowerCase \o UpperCase \o Digits)
    THEN ""
    ELSE SubSeq(name, 1, 1) \o AlnumPrefix(SubSeq(name, 2, Len(name)))

extractComponentUsage(code) ==
    LET named == SelectSeq(code, LAMBDA st :
                    st.kind = "import" /\ st.braces /\ st.names # <<>>)
        imports == Flatten([i \in DOMAIN named |->
                               SelectSeq(named[i].names, isComponentName)])
        tags == SelectSeq(code, LAMBDA st :
                    st.kind = "tag" /\ OneOf(SubSeq(st.names[1], 1, 1), UpperCase))
    IN Values(Unique(imports \o [i \in DOMAIN tags |-> AlnumPrefix(tags[i].names[1])]))

\* content.split('\n').length
LineCount(code) ==
    LET N[i \in 0..Len(code)] ==
            IF i = 0 THEN 0 ELSE N[i - 1] + 1 + code[i].breaks
    IN IF code = <<>> THEN 1 ELSE N[Len(code)]

\* The entry of a file in the bundle; only blocks record the components used.
FileEntry(kind, code) ==
    [lines |-> LineCount(code), dependencies |-> extractDependencies(code),
     componentsUsed |-> IF kind = "svelte-component" THEN <<>>
                        ELSE extractComponentUsage(code)]

\* The bundle assembled from the fetched files: those of the directory
\* (`top') and, for a complex block with includeComponents, those of its
\* sub-directories (`sub'); a simple block is its one file.
Assembled(kind, includeComponents, top, sub) ==
    LET included == IF kind = "simple" THEN SubSeq(top, 1, 1)
                    ELSE IF kind = "complex" /\ includeComponents THEN top \o sub
                    ELSE top
        entries == [i \in DOMAIN included |-> FileEntry(kind, included[i])]
    IN [files |-> entries,
        dependencies |->
            Values(Unique(Flatten([i \in DOMAIN entries |-> entries[i].dependencies]))),
        componentsUsed |->
            Values(Unique(Flatten([i \in DOMAIN entries |-> entries[i].componentsUsed])))]

\* The texts the model fetches.
Texts ==
    {<<>>,
     <<ImportStatement(<<"cn">>, TRUE, 0, "../utils")>>,
     <<ImportStatement(<<"z">>, TRUE, 0, "zod"), TagLine("Button")>>,
     <<ImportStatement(<<"Button", "_internal">>, TRUE, 3, "bits-ui"),
       TagLine("div")>>,
     <<ImportStatement(<<"z">>, TRUE, 0, "zod"),
       ImportStatement(<<"Card">>, TRUE, 0, "$lib/ui"),
       ImportStatement(<<"Root">>, FALSE, 0, "./root.svelte"),
       TagLine("Card.Root"), TagLine("Card")>>,
     <<ImportStatement(<<"page">>, TRUE, 0, "/app/stores"),
       ImportStatement(<<"onMount">>, TRUE, 0, "svelte")>>}
TextLists(n) == UNION {[1..k -> Texts] : k \in 0..n}
BundleKinds == {"svelte-component", "simple", "complex"}
NoBundle == [files |-> <<>>, dependencies |-> <<>>, componentsUsed |-> <<>>]

Assemble ==
    /\ ~extracted.done
    /\ extracted' = [extracted EXCEPT
                        !.done = TRUE,
                        !.out = Assembled(extracted.kind, extracted.includeComponents,
                                          extracted.top, extracted.sub)]

(***************************************************************************)
(* The two HTTP clients (githubApi for listings, githubRaw for raw files)  *)
(* and the bearer token.  A key is its text without the surrounding white  *)
(* space (`body') and whether it has any (`pad'), so that apiKey.trim() is *)
(* the body.                                                               *)
(***************************************************************************)
MaxRequests == 3

Key(pad, body) == [pad |-> pad, body |-> body]
NoKey == Key(FALSE, "")
Keys == {Key(pad, body) : pad \in BOOLEAN, body \in {"", "ghp_a", "ghp_b"}}
Truthy(key) == key.pad \/ key.body # ""
Trim(key) == Key(FALSE, key.body)

\* `Bearer ${key}'
Bearer(key) == [scheme |-> "Bearer", key |-> key]
NoHeader == [scheme |-> "", key |-> NoKey]

Endpoints == {"api", "raw"}

setGitHubApiKey(auth, apiKey) ==
    IF Truthy(apiKey) /\ Truthy(Trim(apiKey))
    THEN [auth EXCEPT !.api = Bearer(Trim(apiKey))]
    ELSE [auth EXCEPT !.api = NoHeader]

\* The headers the two clients are constructed with, given the environment.
NewClients(env) ==
    [api |-> IF Truthy(env) THEN Bearer(env) ELSE NoHeader, raw |-> NoHeader]

\* parseArgs: the command-line key if given, otherwise the environment's.
parseArgs(cli, env) == IF Truthy(cli) THEN cli ELSE IF Truthy(env) THEN env ELSE NoKey

\* The clients after main() has configured the key, if any.
Startup(cli, env) ==
    IF Truthy(parseArgs(cli, env))
    THEN setGitHubApiKey(NewClients(env), parseArgs(cli, env))
    ELSE NewClients(env)

\* The token that has been configured by giving `key' ("" when that removes it).
TokenOf(key) == Trim(key).body

SetGitHubApiKey(apiKey) ==
    /\ authorization' = setGitHubApiKey(authorization, apiKey)
    /\ configured' = TokenOf(apiKey)
    /\ UNCHANGED requests

\* githubApi.get / githubRaw.get: the request goes out with the client's headers.
Get(endpoint) ==
    /\ Len(requests) < MaxRequests
    /\ requests' = Append(requests, [endpoint |-> endpoint,
                                     authorization |-> authorization[endpoint],
                                     configured |-> configured])
    /\ UNCHANGED <<authorization, configured>>

vars == <<external, now, pc, fnCalls, lastOp, streak, req, validated, extracted,
          rop, rpc, stack, outstanding, listed, answers, rresult, fetched, returned,
          authorization, configured, requests>>
breakerVars == <<external, now, pc, fnCalls, lastOp, streak>>
facadeVars == <<req>>
treeVars == <<rop, rpc, stack, outstanding, listed, answers, rresult>>
fetchVars == <<fetched, returned>>
resolverVars == <<treeVars, fetchVars>>
clientVars == <<authorization, configured, requests>>
validatorVars == <<validated>>
extractorVars == <<extracted>>

BreakerNext ==
    \/ \E c \in Callers : ExecuteAdmit(c) /\ UNCHANGED <<facadeVars, resolverVars, clientVars, validatorVars, extractorVars>>
    \/ \E c \in Callers : ExecuteResolve(c) /\ UNCHANGED <<facadeVars, resolverVars, clientVars, validatorVars, extractorVars>>
    \/ \E c \in Callers : ExecuteReject(c) /\ UNCHANGED <<facadeVars, resolverVars, clientVars, validatorVars, extractorVars>>
    \/ Reset /\ UNCHANGED <<facadeVars, resolverVars, clientVars, validatorVars, extractorVars>>
    \/ Tick /\ UNCHANGED <<facadeVars, resolverVars, clientVars, validatorVars, extractorVars>>

BreakerInit ==
    /\ external = NewCircuitBreaker
    /\ now = StartTime
    /\ pc = [c \in Callers |-> "idle"]
    /\ fnCalls = 0
    /\ lastOp = [op |-> "new", by |-> 0]
    /\ streak = 0
    /\ req = [r \in Slots |-> IdleRequest]
    /\ validated = [done |-> TRUE, method |-> "", params |-> <<>>, out |-> NoOutcome]
    /\ extracted = [done |-> TRUE, kind |-> "", includeComponents |-> FALSE,
                    top |-> <<>>, sub |-> <<>>, out |-> NoBundle]
    /\ rop = NoOperation /\ rpc = "idle" /\ stack = <<>> /\ outstanding = {}
    /\ listed = <<>> /\ answers = <<>> /\ rresult = NoResult
    /\ fetched = <<>> /\ returned = <<>>
    /\ authorization = [api |-> NoHeader, raw |-> NoHeader]
    /\ configured = "" /\ requests = <<>>

SpecBreaker == BreakerInit /\ [][BreakerNext]_vars

(***************************************************************************)
(* The breaker under the scheduling its callers provide: the clock goes    *)
(* on, a caller that is idle calls execute() again, and a wrapped function *)
(* that can succeed does settle.  Nothing obliges a call to fail or        *)
(* anyone to call reset().                                                 *)
(***************************************************************************)
BreakerFairness ==
    /\ WF_vars(Tick /\ UNCHANGED <<facadeVars, resolverVars, clientVars, validatorVars, extractorVars>>)
    /\ \A c \in Callers :
          /\ WF_vars(ExecuteAdmit(c) /\ UNCHANGED <<facadeVars, resolverVars, clientVars, validatorVars, extractorVars>>)
          /\ WF_vars(ExecuteResolve(c) /\ UNCHANGED <<facadeVars, resolverVars, clientVars, validatorVars, extractorVars>>)

SpecBreakerFair == BreakerInit /\ [][BreakerNext]_vars /\ BreakerFairness

FacadeNext ==
    \/ \E r \in Slots : \E q \in RequestsOf(r) :
          HandleRequest(r, q.method, q.name, q.arg) /\ UNCHANGED <<resolverVars, clientVars, validatorVars, extractorVars>>
    \/ \E r \in Slots, ok \in BOOLEAN : ToolSettles(r, ok) /\ UNCHANGED <<resolverVars, clientVars, validatorVars, extractorVars>>
    \/ \E r \in Slots : HandlerSettles(r) /\ UNCHANGED <<resolverVars, clientVars, validatorVars, extractorVars>>
    \/ Tick /\ UNCHANGED <<facadeVars, resolverVars, clientVars, validatorVars, extractorVars>>

FacadeInit ==
    /\ external = NewCircuitBreaker
    /\ now = StartTime
    /\ pc = [c \in Callers |-> "idle"]
    /\ fnCalls = 0
    /\ lastOp = [op |-> "new", by |-> 0]
    /\ streak = 0
    /\ req = [r \in Slots |-> IdleRequest]
    /\ validated = [done |-> TRUE, method |-> "", params |-> <<>>, out |-> NoOutcome]
    /\ extracted = [done |-> TRUE, kind |-> "", includeComponents |-> FALSE,
                    top |-> <<>>, sub |-> <<>>, out |-> NoBundle]
    /\ rop = NoOperation /\ rpc = "idle" /\ stack = <<>> /\ outstanding = {}
    /\ listed = <<>> /\ answers = <<>> /\ rresult = NoResult
    /\ fetched = <<>> /\ returned = <<>>
    /\ authorization = [api |-> NoHeader, raw |-> NoHeader]
    /\ configured = "" /\ requests = <<>>

SpecFacade == FacadeInit /\ [][FacadeNext]_vars

ResolverNext ==
    \/ ListComponents /\ UNCHANGED <<breakerVars, facadeVars, clientVars, validatorVars, extractorVars, fetchVars>>
    \/ \E resp \in Responses(MaxEntries) :
          ListComponentsSettles(resp) /\ UNCHANGED <<breakerVars, facadeVars, clientVars, validatorVars, extractorVars, fetchVars>>
    \/ \E path \in PathArgs :
          GetDirectoryStructure(path) /\ UNCHANGED <<breakerVars, facadeVars, clientVars, validatorVars, extractorVars, fetchVars>>
    \/ /\ stack # <<>>
       /\ \E resp \in Responses(Width(Top(stack).path)) :
             DirectoryListingSettles(resp) /\ UNCHANGED <<breakerVars, facadeVars, clientVars, validatorVars, extractorVars, fetchVars>>
    \/ \E op \in Calls :
          CallOperation(op) /\ UNCHANGED <<breakerVars, facadeVars, clientVars, validatorVars, extractorVars>>
    \/ /\ fetched # <<>>
       /\ \E resp \in AnswersTo(rop, fetched[Len(fetched)]) :
             FetchSettles(resp) /\ UNCHANGED <<breakerVars, facadeVars, clientVars, validatorVars, extractorVars>>

ResolverInit ==
    /\ external = NewCircuitBreaker
    /\ now = StartTime
    /\ pc = [c \in Callers |-> "idle"]
    /\ fnCalls = 0
    /\ lastOp = [op |-> "new", by |-> 0]
    /\ streak = 0
    /\ req = [r \in Slots |-> IdleRequest]
    /\ validated = [done |-> TRUE, method |-> "", params |-> <<>>, out |-> NoOutcome]
    /\ extracted = [done |-> TRUE, kind |-> "", includeComponents |-> FALSE,
                    top |-> <<>>, sub |-> <<>>, out |-> NoBundle]
    /\ rop = NoOperation /\ rpc = "idle" /\ stack = <<>> /\ outstanding = {}
    /\ listed = <<>> /\ answers = <<>> /\ rresult = NoResult
    /\ fetched = <<>> /\ returned = <<>>
    /\ authorization = [api |-> NoHeader, raw |-> NoHeader]
    /\ configured = "" /\ requests = <<>>

SpecResolver == ResolverInit /\ [][ResolverNext]_vars

ClientNext ==
    \/ \E apiKey \in Keys :
          SetGitHubApiKey(apiKey) /\ UNCHANGED <<breakerVars, facadeVars, resolverVars, validatorVars, extractorVars>>
    \/ \E endpoint \in Endpoints :
          Get(endpoint) /\ UNCHANGED <<breakerVars, facadeVars, resolverVars, validatorVars, extractorVars>>

ClientInit ==
    /\ external = NewCircuitBreaker
    /\ now = StartTime
    /\ pc = [c \in Callers |-> "idle"]
    /\ fnCalls = 0
    /\ lastOp = [op |-> "new", by |-> 0]
    /\ streak = 0
    /\ req = [r \in Slots |-> IdleRequest]
    /\ validated = [done |-> TRUE, method |-> "", params |-> <<>>, out |-> NoOutcome]
    /\ extracted = [done |-> TRUE, kind |-> "", includeComponents |-> FALSE,
                    top |-> <<>>, sub |-> <<>>, out |-> NoBundle]
    /\ rop = NoOperation /\ rpc = "idle" /\ stack = <<>> /\ outstanding = {}
    /\ listed = <<>> /\ answers = <<>> /\ rresult = NoResult
    /\ fetched = <<>> /\ returned = <<>>
    /\ \E cli \in Keys, env \in Keys :
          /\ authorization = Startup(cli, env)
          /\ configured = TokenOf(parseArgs(cli, env))
    /\ requests = <<>>

SpecClient == ClientInit /\ [][ClientNext]_vars

ValidatorNext ==
    Validate /\ UNCHANGED <<breakerVars, facadeVars, resolverVars, clientVars, extractorVars>>

ValidatorInit ==
    /\ external = NewCircuitBreaker
    /\ now = StartTime
    /\ pc = [c \in Callers |-> "idle"]
    /\ fnCalls = 0
    /\ lastOp = [op |-> "new", by |-> 0]
    /\ streak = 0
    /\ req = [r \in Slots |-> IdleRequest]
    /\ \E method \in ValidatorMethods, params \in RawArgs :
          validated = [done |-> FALSE, method |-> method, params |-> params,
                       out |-> NoOutcome]
    /\ extracted = [done |-> TRUE, kind |-> "", includeComponents |-> FALSE,
                    top |-> <<>>, sub |-> <<>>, out |-> NoBundle]
    /\ rop = NoOperation /\ rpc = "idle" /\ stack = <<>> /\ outstanding = {}
    /\ listed = <<>> /\ answers = <<>> /\ rresult = NoResult
    /\ fetched = <<>> /\ returned = <<>>
    /\ authorization = [api |-> NoHeader, raw |-> NoHeader]
    /\ configured = "" /\ requests = <<>>

SpecValidator == ValidatorInit /\ [][ValidatorNext]_vars

ExtractorNext ==
    Assemble /\ UNCHANGED <<breakerVars, facadeVars, resolverVars, clientVars,
                            validatorVars>>

ExtractorInit ==
    /\ external = NewCircuitBreaker
    /\ now = StartTime
    /\ pc = [c \in Callers |-> "idle"]
    /\ fnCalls = 0
    /\ lastOp = [op |-> "new", by |-> 0]
    /\ streak = 0
    /\ req = [r \in Slots |-> IdleRequest]
    /\ validated = [done |-> TRUE, method |-> "", params |-> <<>>, out |-> NoOutcome]
    /\ \E kind \in BundleKinds, flag \in BOOLEAN :
       \E top \in TextLists(MaxFiles), sub \in TextLists(MaxFiles - 1) :
          /\ kind = "simple" => Len(top) = 1 /\ sub = <<>> /\ ~flag
          /\ kind = "svelte-component" => sub = <<>> /\ ~flag
          /\ extracted = [done |-> FALSE, kind |-> kind, includeComponents |-> flag,
                          top |-> top, sub |-> sub, out |-> NoBundle]
    /\ rop = NoOperation /\ rpc = "idle" /\ stack = <<>> /\ outstanding = {}
    /\ listed = <<>> /\ answers = <<>> /\ rresult = NoResult
    /\ fetched = <<>> /\ returned = <<>>
    /\ authorization = [api |-> NoHeader, raw |-> NoHeader]
    /\ configured = "" /\ requests = <<>>

SpecExtractor == ExtractorInit /\ [][ExtractorNext]_vars

(***************************************************************************)
(* C1: in CLOSED every failed execute() adds one to the failure counter    *)
(* and stamps lastFailureTime, every successful one zeroes the counter;    *)
(* the step opens the breaker exactly when the failed call is the          *)
(* FailureThreshold-th consecutive failure, and nothing else opens it.     *)
(***************************************************************************)
C1_ClosedCountsFailures ==
    [][ external.state = CLOSED =>
          /\ lastOp'.op = "failure" =>
                /\ external'.failures = external.failures + 1
                /\ external'.lastFailureTime = now
                /\ external'.state \in {CLOSED, OPEN}
                /\ external'.state = OPEN <=> streak' = FailureThreshold
          /\ lastOp'.op = "success" =>
                /\ external'.failures = 0
                /\ external'.state = CLOSED
          /\ external'.state = OPEN => lastOp'.op = "failure"
      ]_vars

C1_Witness ==
    /\ lastOp.op = "failure"
    /\ external.state = OPEN
    /\ external.failures = FailureThreshold
    /\ streak = FailureThreshold
    /\ external.lastFailureTime = now
    /\ now > StartTime

(***************************************************************************)
(* C2: while OPEN with less than Timeout elapsed since lastFailureTime,    *)
(* an execute() is refused at once: the wrapped function is not invoked,   *)
(* no call is left pending and the breaker is untouched.                   *)
(***************************************************************************)
C2_OpenShortCircuits ==
    [][ ( /\ external.state = OPEN
          /\ now - external.lastFailureTime < Timeout
          /\ lastOp'.op \in {"admit", "reject"} )
        => /\ lastOp'.op = "reject"
           /\ fnCalls' = fnCalls
           /\ pc' = pc
           /\ external' = external
      ]_vars

C2_Witness ==
    /\ lastOp.op = "reject"
    /\ external.state = OPEN
    /\ now - external.lastFailureTime = Timeout - 1
    /\ fnCalls = FailureThreshold

(***************************************************************************)
(* C3: apart from reset(), the only step that leaves OPEN is an execute()  *)
(* admission made when now - lastFailureTime >= Timeout; it goes to        *)
(* HALF_OPEN with the success counter at zero and invokes the wrapped      *)
(* function.                                                               *)
(***************************************************************************)
C3_OpenLeavesOnlyToHalfOpen ==
    [][ ( /\ external.state = OPEN
          /\ external'.state # OPEN
          /\ lastOp'.op # "reset" )
        => /\ external'.state = HALF_OPEN
           /\ lastOp'.op = "admit"
           /\ now - external.lastFailureTime >= Timeout
           /\ external'.successes = 0
           /\ fnCalls' = fnCalls + 1
           /\ pc[lastOp'.by] = "idle" /\ pc'[lastOp'.by] = "running"
      ]_vars

C3_Witness ==
    /\ lastOp.op = "admit"
    /\ external.state = HALF_OPEN
    /\ now - external.lastFailureTime = Timeout
    /\ external.successes = 0
    /\ pc[lastOp.by] = "running"

(***************************************************************************)
(* C4: in HALF_OPEN an execute() is let through; a success adds one to the *)
(* success counter and closes the breaker exactly when that makes          *)
(* SuccessThreshold; one failure reopens it with the success counter zero. *)
(***************************************************************************)
C4_HalfOpenProbes ==
    [][ external.state = HALF_OPEN =>
          /\ external.successes < SuccessThreshold
          /\ lastOp'.op \in {"admit", "reject"} =>
                /\ lastOp'.op = "admit"
                /\ fnCalls' = fnCalls + 1
                /\ external' = external
          /\ lastOp'.op = "success" =>
                IF external.successes + 1 = SuccessThreshold
                THEN external'.state = CLOSED
                ELSE /\ external'.state = HALF_OPEN
                     /\ external'.successes = external.successes + 1
          /\ lastOp'.op = "failure" =>
                /\ external'.state = OPEN
                /\ external'.successes = 0
          /\ external'.state = CLOSED => lastOp'.op \in {"success", "reset"}
          /\ external'.state = OPEN => lastOp'.op = "failure"
      ]_vars

\* The breaker has just closed after SuccessThreshold successes in HALF_OPEN.
C4_Witness ==
    /\ lastOp.op = "success"
    /\ external.state = CLOSED
    /\ external.lastFailureTime > 0
    /\ fnCalls >= FailureThreshold + SuccessThreshold

(***************************************************************************)
(* C5: a request whose arguments fail validation ends at once with the     *)
(* validation failure: the breaker's state, counters and lastFailureTime   *)
(* are what they were, and no handler, resolver operation or remote call   *)
(* was started for it.                                                     *)
(***************************************************************************)
\* Requests that break their method's rule set: an empty tool name or URI.
InvalidArgs(q) == q.method \in {"call_tool", "read_resource"} /\ q.name = ""

C5_ValidationBeforeBreaker ==
    [][ \A r \in Slots :
          (lastOp'.op = "request" /\ lastOp'.by = r) =>
             /\ InvalidArgs(req'[r]) <=> req'[r].result = "ValidationFailed"
             /\ req'[r].result = "ValidationFailed" =>
                   /\ req'[r].pc = "done"
                   /\ external' = external
                   /\ ~req'[r].handler
                   /\ ~req'[r].resolver
                   /\ req'[r].remote = 0
      ]_vars

\* A validation failure while the breaker is open and has counted failures.
C5_Witness ==
    /\ lastOp = [op |-> "request", by |-> 1]
    /\ req[1].pc = "done"
    /\ req[1].result = "ValidationFailed"
    /\ external.state = OPEN
    /\ external.failures >= FailureThreshold

(***************************************************************************)
(* C6: a get_component call whose componentName is the empty string ends   *)
(* with a validation failure and issues no remote request.                 *)
(***************************************************************************)
C6_EmptyComponentNameRejected ==
    \A r \in Slots :
        ( /\ req[r].pc # "idle"
          /\ req[r].method = "call_tool"
          /\ req[r].name = "get_component"
          /\ req[r].arg = Str("") )
        => /\ req[r].remote = 0
           /\ req[r].pc = "done"
           /\ req[r].result = "ValidationFailed"

(***************************************************************************)
(* Claims about the resolver.                                              *)
(***************************************************************************)
TopAnswer == IF answers = <<>> THEN NoResponse ELSE answers[1]
ListDone == rpc = "done" /\ rop.name = "list_components"
TreeDone == rpc = "done" /\ rop.name = "get_directory_structure"

\* The ways a listing request can fail.
HttpFailure(resp) == resp.settle = "rejected" /\ resp.status # 0
NetworkFailure(resp) ==
    resp.settle = "rejected" /\ resp.status = 0
    /\ resp.code \in {"ECONNREFUSED", "ENOTFOUND", "ETIMEDOUT"}
OtherRejection(resp) ==
    resp.settle = "rejected" /\ resp.status = 0
    /\ resp.code \notin {"ECONNREFUSED", "ENOTFOUND", "ETIMEDOUT"}
RateLimitFailure(resp) ==
    \/ resp.settle = "rejected" /\ resp.status = 403 /\ "rate limit" \in resp.msg
    \/ resp.settle = "resolved" /\ resp.shape = "message"
       /\ "rate limit exceeded" \in resp.msg
ListingFailure(resp) == resp.settle = "rejected" \/ resp.shape \notin {"array", "file"}
NoComponentsListed(resp) ==
    resp.settle = "resolved" /\ (resp.shape # "array" \/ DirNames(resp.entries) = <<>>)

FallbackListReturned ==
    rresult.status = "ok" /\ rresult.components = getFallbackComponents

C8_DefaultRootRateLimitFallsBack ==
    (TreeDone /\ RateLimitFailure(TopAnswer)) =>
        IF rop.path = NoPath
        THEN rresult.status = "ok" /\ rresult.tree = getBasicSvelteStructure
        ELSE rresult.status = "failed"

(***************************************************************************)
(* C9: when the listing of a sub-directory fails, in whatever way, that    *)
(* child is recorded as a directory node carrying the error marker, every  *)
(* entry of every listing received is still processed (a file becomes a    *)
(* file node, a directory within the ceiling is listed), and the call      *)
(* returns a tree; the call fails only when the top-level listing fails.   *)
(***************************************************************************)
RECURSIVE NodeAt(_, _)
NodeAt(node, path) ==
    IF node.path = path THEN node
    ELSE IF Len(path) <= Len(node.path) THEN NoNode
    ELSE LET name == path[Len(node.path) + 1]
         IN IF name \in DOMAIN node.children
            THEN NodeAt(node.children[name], path)
            ELSE NoNode

C9_SubDirectoryFailureIsRecorded ==
    TreeDone =>
        /\ rresult.status = "failed" => Len(listed) = 1 /\ ListingFailure(answers[1])
        /\ (Len(listed) > 1 \/ ~ListingFailure(answers[1])) =>
              /\ rresult.status = "ok"
              /\ \A i \in DOMAIN listed :
                    /\ (i > 1 /\ ListingFailure(answers[i])) =>
                          NodeAt(rresult.tree, listed[i]) = FailedNode(listed[i])
                    /\ answers[i].shape = "array" =>
                          \A k \in DOMAIN answers[i].entries :
                             LET e == answers[i].entries[k]
                                 child == Append(listed[i], e.name)
                             IN /\ e.type = "file" =>
                                      NodeAt(rresult.tree, child) = FileNode(child)
                                /\ (e.type = "dir" /\ Len(listed[i]) < DepthCeiling) =>
                                      \E j \in DOMAIN listed : listed[j] = child

\* A sub-directory listing failed, a later sibling of it was processed and
\* the call returned the tree.
C9_Witness ==
    /\ TreeDone /\ rresult.status = "ok"
    /\ \E i, j \in DOMAIN listed :
          /\ j > i /\ ListingFailure(answers[j])
          /\ answers[i].shape = "array" /\ Len(answers[i].entries) > 1
          /\ listed[j] = Append(listed[i], answers[i].entries[1].name)
          /\ NodeAt(rresult.tree, listed[j]) = FailedNode(listed[j])
          /\ NodeAt(rresult.tree, Append(listed[i], answers[i].entries[2].name)) # NoNode

RECURSIVE Deepest(_)
Deepest(node) ==
    LET below == {Deepest(node.children[n]) : n \in DOMAIN node.children}
    IN IF below = {} THEN Len(node.path)
       ELSE CHOOSE d \in below : \A x \in below : x <= d

\* The most listing calls a tree started at a path of n segments can take
\* against a host that sends Width entries per listing.
RECURSIVE CallBound(_)
CallBound(n) ==
    IF n >= DepthCeiling THEN 1
    ELSE 1 + (IF n < NarrowBelow THEN 1 ELSE MaxEntries) * CallBound(n + 1)

C11_EveryRequestCarriesToken ==
    \A i \in DOMAIN requests :
        requests[i].authorization =
            IF requests[i].configured = "" THEN NoHeader
            ELSE Bearer(Key(FALSE, requests[i].configured))

\* The operation ended on the rejection of a request to the listing endpoint.
LastAnswer == answers[Len(answers)]
ListingRejected ==
    /\ rpc = "done" /\ answers # <<>> /\ LastAnswer.settle = "rejected"
    /\ \/ rop.name = "list_components"
       \/ rop.name = "get_directory_structure" /\ Len(listed) = 1
       \/ fetched # <<>> /\ fetched[Len(fetched)].endpoint = "api"

\* The one mapping of a failed listing response to a failure kind.
FailureKind(resp) ==
    IF resp.status = 404 THEN "NotFound"
    ELSE IF resp.status = 401 THEN "AuthFailed"
    ELSE IF resp.status = 403
    THEN IF "rate limit" \in resp.msg THEN "RateLimited" ELSE "Forbidden"
    ELSE IF resp.status # 0 THEN "RemoteError"
    ELSE IF resp.code \in {"ECONNREFUSED", "ENOTFOUND", "ETIMEDOUT"} THEN "NetworkError"
    ELSE ""

(***************************************************************************)
(* C12: every resolver operation that calls the listing endpoint maps a    *)
(* failed response the same way: 404 to NotFound, 401 to AuthFailed, 403   *)
(* with a rate-limit message to RateLimited, any other 403 to Forbidden,   *)
(* any other HTTP error to RemoteError, and a connection-level failure     *)
(* (refused, unresolved host, timeout) to NetworkError.                    *)
(***************************************************************************)
C12_UniformFailureMapping ==
    (ListingRejected /\ (HttpFailure(LastAnswer) \/ NetworkFailure(LastAnswer))) =>
        rresult.status = "failed" /\ rresult.err.kind = FailureKind(LastAnswer)

(***************************************************************************)
(* C13: a rate-limit, authentication, forbidden or network failure of a    *)
(* request made during getComponentSource, getComponentDemo, getBlockCode  *)
(* or getAvailableBlocks, on which the operation ends, reaches the caller  *)
(* as it was raised: the operation fails with that same error, not with    *)
(* one of another kind (such as NotFound).                                 *)
(***************************************************************************)
C13_FailuresPropagateUnchanged ==
    (/\ rpc = "done" /\ answers # <<>>
     /\ rop.name \in {"getComponentSource", "getComponentDemo", "getBlockCode",
                      "getAvailableBlocks"}
     /\ LastAnswer.settle = "rejected"
     /\ (LastAnswer.status \in {401, 403} \/ NetworkFailure(LastAnswer)))
        => rresult.status = "failed" /\ rresult.err = RequestError(LastAnswer)

\* The host says that the listed path does not exist.
ListingAbsent(resp) ==
    \/ resp.settle = "rejected" /\ resp.status = 404
    \/ resp.settle = "resolved" /\ resp.shape = "empty"
    \/ resp.settle = "resolved" /\ resp.shape = "message" /\ "Not Found" \in resp.msg
ListingEmpty(resp) ==
    resp.settle = "resolved" /\ resp.shape = "array" /\ resp.entries = <<>>

(***************************************************************************)
(* C14: getComponentSource fails with NotFound whenever the listing of the *)
(* component's directory is absent or has no entry, and returns a bundle   *)
(* only when the listing has at least one entry.                           *)
(***************************************************************************)
C14_EmptyOrAbsentIsNotFound ==
    (rpc = "done" /\ rop.name = "getComponentSource" /\ answers # <<>>) =>
        /\ (ListingAbsent(answers[1]) \/ ListingEmpty(answers[1])) =>
              rresult.status = "failed" /\ rresult.err.kind = "NotFound"
        /\ rresult.status = "ok" =>
              answers[1].shape = "array" /\ Len(answers[1].entries) >= 1

\* The requests of getBlockCode: the single file, then the directory.
SimpleBlockPath == Append(REGISTRY_BLOCKS_PATH, rop.arg.s \o ".svelte")
ComplexBlockPath == Append(REGISTRY_BLOCKS_PATH, rop.arg.s)
BlockFormsInOrder ==
    /\ fetched # <<>> => fetched[1] = Fetch("raw", SimpleBlockPath)
    /\ Len(fetched) >= 2 =>
          /\ Len(answers) >= 1 /\ ~Ok200(answers[1])
          /\ fetched[2] = Fetch("api", ComplexBlockPath)
BlockKindFollowsForm ==
    (rpc = "done" /\ rresult.status = "ok") =>
        returned.type = IF Ok200(answers[1]) THEN "simple" ELSE "complex"
BlockDescendsOneLevel ==
    \A i \in 3..Len(fetched) :
        /\ Len(fetched[i].path) <= Len(ComplexBlockPath) + 2
        /\ fetched[i].endpoint = "api" =>
              rop.flag /\ Len(fetched[i].path) = Len(ComplexBlockPath) + 1
NeitherBlockFormResolves ==
    /\ Len(answers) >= 2 /\ ~Ok200(answers[1])
    /\ ~(answers[2].settle = "resolved" /\ answers[2].shape = "array")

(***************************************************************************)
(* C15: getBlockCode requests the single file first and the directory      *)
(* listing only if the single file did not resolve; the bundle is simple   *)
(* in the first case and complex in the second; sub-directories are listed *)
(* only with includeComponents and only one level deep; and the call fails *)
(* with NotFound when neither form resolves.                               *)
(***************************************************************************)
C15_SimpleThenComplexElseNotFound ==
    rop.name = "getBlockCode" =>
        /\ BlockFormsInOrder
        /\ BlockKindFollowsForm
        /\ BlockDescendsOneLevel
        /\ (rpc = "done" /\ NeitherBlockFormResolves) =>
              rresult.status = "failed" /\ rresult.err.kind = "NotFound"

\* The three candidate demo files of the component called with.
DemoCandidates ==
    LET lower == toLowerCase(rop.arg.s)
    IN <<Fetch("raw", REGISTRY_EXAMPLES_PATH \o <<lower \o "-demo.svelte">>),
         Fetch("raw", REGISTRY_EXAMPLES_PATH \o <<lower \o ".svelte">>),
         Fetch("raw", REGISTRY_EXAMPLES_PATH \o <<lower \o "-01.svelte">>)>>

(***************************************************************************)
(* C16: getComponentDemo requests <name>-demo, <name>, <name>-01 in that   *)
(* order; it returns the content of the first candidate answered with      *)
(* status 200 and requests no later candidate; it fails with NotFound      *)
(* exactly when none of the three is so answered.                          *)
(***************************************************************************)
C16_FirstResolvingDemoInOrder ==
    (rop.name = "getComponentDemo" /\ rop.arg.t = "string") =>
        /\ Len(fetched) <= 3
        /\ fetched = SubSeq(DemoCandidates, 1, Len(fetched))
        /\ \A i \in 1..Len(answers) : Ok200(answers[i]) => Len(fetched) = i
        /\ rpc = "done" =>
              /\ rresult.status = "ok" <=> Ok200(LastAnswer)
              /\ rresult.status = "ok" =>
                    /\ returned.demo = DemoCandidates[Len(answers)].path
                    /\ returned.content = LastAnswer.shape
              /\ rresult.status = "failed" <=>
                    (Len(answers) = 3 /\ \A i \in 1..3 : ~Ok200(answers[i]))
              /\ rresult.status = "failed" => rresult.err.kind = "NotFound"

\* The first candidate is missing, the plain one is returned, the third is
\* never requested.
C16_Witness ==
    /\ rop.name = "getComponentDemo" /\ rop.arg.t = "string"
    /\ rpc = "done" /\ rresult.status = "ok"
    /\ Len(fetched) = 2 /\ ~Ok200(answers[1])
    /\ returned.demo = DemoCandidates[2].path

\* What getComponentMetadata handed to the tool when the call ended.
MetadataOutcome == getComponentMetadata(rop.arg, answers)
MetaFilePresent(resp) == Ok200(resp) /\ resp.shape = "json"
MetaFileAbsent(resp) == resp.status = 404

(***************************************************************************)
(* C17: getComponentMetadata never throws: it returns the parsed metadata  *)
(* when the component's meta.json is present, the object made from the     *)
(* name alone when the file is absent, and null on an internal error (a    *)
(* name that is no string); the tool fails only when the result is null.   *)
(***************************************************************************)
C17_MetadataNeverRaises ==
    (rop.name = "getComponentMetadata" /\ rpc = "done") =>
        /\ MetadataOutcome.ended /\ ~MetadataOutcome.thrown
        /\ rop.arg.t # "string" => MetadataOutcome.value = Null
        /\ (answers # <<>> /\ MetaFilePresent(answers[1])) =>
              MetadataOutcome.value = Metadata("parsed", rop.arg)
        /\ (answers # <<>> /\ MetaFileAbsent(answers[1])) =>
              MetadataOutcome.value = Metadata("basic", rop.arg)
        /\ rresult.status = "failed" <=> MetadataOutcome.value = Null
        /\ rresult.status = "failed" => rresult.err.kind = "MetadataNotFound"
        /\ rresult.status = "ok" => returned = MetadataOutcome.value

\* The metadata file is absent and the tool answers with the minimal object.
C17_Witness ==
    /\ rop.name = "getComponentMetadata" /\ rpc = "done"
    /\ answers # <<>> /\ answers[1].settle = "rejected" /\ MetaFileAbsent(answers[1])
    /\ rresult.status = "ok"
    /\ returned = Metadata("basic", rop.arg)

\* The rules in the order the claim gives them: the category and the
\* substrings that select it.
CategoryRules ==
    <<[category |-> "calendar", words |-> {"calendar"}],
      [category |-> "dashboard", words |-> {"dashboard"}],
      [category |-> "login", words |-> {"login", "signin"}],
      [category |-> "sidebar", words |-> {"sidebar"}],
      [category |-> "authentication", words |-> {"auth"}],
      [category |-> "charts", words |-> {"chart", "graph"}]>>
RuleMatches(i, name) == \E w \in CategoryRules[i].words : Includes(name, w)
FirstMatchingCategory(name) ==
    IF \E i \in DOMAIN CategoryRules : RuleMatches(i, name)
    THEN CategoryRules[CHOOSE i \in DOMAIN CategoryRules :
                          /\ RuleMatches(i, name)
                          /\ \A j \in 1..(i - 1) : ~RuleMatches(j, name)].category
    ELSE "other"
SortedByName(list) ==
    \A i, j \in DOMAIN list : i < j => NotAfter(list[i].name, list[j].name)
ItemsOf(list) == {list[i].item : i \in DOMAIN list}
CategorySizes(cats) ==
    LET Sum[i \in 0..Len(Categories)] ==
            IF i = 0 THEN 0 ELSE Sum[i - 1] + Len(cats[Categories[i]])
    IN Sum[Len(Categories)]
UnfilteredBlocksDone ==
    /\ rop.name = "getAvailableBlocks" /\ rpc = "done" /\ rresult.status = "ok"
    /\ (rop.arg = Undefined \/ rop.arg = Str(""))

(***************************************************************************)
(* C18: without a filter, every entry of the blocks listing is in exactly  *)
(* one category, the one of the first rule that matches its name in the    *)
(* order calendar, dashboard, login/signin, sidebar, auth, chart/graph,    *)
(* else other; the lists are pairwise disjoint, their sizes sum to the     *)
(* number of entries, which is totalBlocks, and each is sorted by name.    *)
(***************************************************************************)
C18_FirstRuleClassifies ==
    UnfilteredBlocksDone =>
        LET entries == answers[1].entries
            cats == returned.categories
        IN /\ DOMAIN cats = {Categories[i] : i \in DOMAIN Categories}
           /\ \A i \in DOMAIN entries : \A key \in DOMAIN cats :
                 entries[i].name \in ItemsOf(cats[key])
                     <=> key = FirstMatchingCategory(entries[i].name)
           /\ \A k1, k2 \in DOMAIN cats :
                 k1 # k2 => ItemsOf(cats[k1]) \cap ItemsOf(cats[k2]) = {}
           /\ \A key \in DOMAIN cats :
                 /\ SortedByName(cats[key])
                 /\ Cardinality(ItemsOf(cats[key])) = Len(cats[key])
           /\ CategorySizes(cats) = Len(entries)
           /\ returned.totalBlocks = Len(entries)

\* Two entries that match the calendar rule, one of them the dashboard rule
\* as well, listed in the reverse of their alphabetical order.
C18_Witness ==
    /\ UnfilteredBlocksDone
    /\ answers[1].entries = <<Entry("dashboard-calendar", "dir"),
                              Entry("calendar-02", "dir")>>
    /\ Len(returned.categories["calendar"]) = 2
    /\ returned.categories["calendar"][1].name = "calendar-02"
    /\ returned.categories["dashboard"] = <<>>

\* listBlocks was called with a filter string and answered.
FilteredBlocksDone ==
    /\ rop.name = "getAvailableBlocks" /\ rpc = "done" /\ rresult.status = "ok"
    /\ rop.arg.t = "string"
NamesCategory(filter) ==
    \E i \in DOMAIN Categories : Categories[i] = toLowerCase(filter)
\* The entries of the listing that the rules put in `key'.
ClassifiedInto(key, entries) ==
    {entries[i].name : i \in {j \in DOMAIN entries :
                                 FirstMatchingCategory(entries[j].name) = key}}
IsFilteredResult(r) ==
    /\ {"blocks", "total", "isList"} \subseteq DOMAIN r
    /\ r.isList

(***************************************************************************)
(* C19: with a filter that names a category the result holds exactly the   *)
(* entries classified into it, sorted by name, and total is their count;   *)
(* with any filter string that names no category the result has an empty   *)
(* block list, total 0 and lists exactly the non-empty categories.         *)
(***************************************************************************)
C19_FilterSelectsOrEmpty ==
    FilteredBlocksDone =>
        LET entries == answers[1].entries
        IN /\ IsFilteredResult(returned)
           /\ NamesCategory(rop.arg.s) =>
                 /\ ItemsOf(returned.blocks)
                       = ClassifiedInto(toLowerCase(rop.arg.s), entries)
                 /\ SortedByName(returned.blocks)
                 /\ returned.total = Len(returned.blocks)
                 /\ returned.total = Cardinality(ItemsOf(returned.blocks))
           /\ ~NamesCategory(rop.arg.s) =>
                 /\ returned.blocks = <<>>
                 /\ returned.total = 0
                 /\ {returned.availableCategories[i] :
                        i \in DOMAIN returned.availableCategories}
                       = {key \in {Categories[i] : i \in DOMAIN Categories} :
                             ClassifiedInto(key, entries) # {}}

\* The rule set of the method validated, its raw arguments and the outcome.
ValidatedSchema == getValidationSchema(validated.method)
ViolatedFields ==
    {k \in DOMAIN ValidatedSchema :
        Violates(ValidatedSchema[k], Field(validated.params, k))}
KnownFields == DOMAIN validated.params \cap DOMAIN ValidatedSchema
ValidatorFailsPerField ==
    /\ validated.out.ok <=> ViolatedFields = {}
    /\ ~validated.out.ok =>
          /\ DOMAIN validated.out.errors = ViolatedFields
          /\ \A k \in ViolatedFields : validated.out.errors[k] = 1
PassesThroughWithoutRules ==
    /\ validated.out.ok
    /\ validated.out.value = validated.params

IncludedTexts ==
    IF extracted.kind = "simple" THEN extracted.top
    ELSE IF extracted.kind = "complex" /\ extracted.includeComponents
    THEN extracted.top \o extracted.sub
    ELSE extracted.top
IsLocalSpecifier(s) ==
    \E prefix \in {"./", "../", "$", "/"} : StartsWith(s, prefix)
ExternalPackages(code) ==
    {code[i].specifier : i \in {j \in DOMAIN code :
        code[j].kind = "import" /\ ~IsLocalSpecifier(code[j].specifier)}}
ElementsOf(list) == {list[i] : i \in DOMAIN list}
NoDuplicates(list) == \A i, j \in DOMAIN list : i # j => list[i] # list[j]
DependenciesAreClean ==
    /\ NoDuplicates(extracted.out.dependencies)
    /\ \A d \in ElementsOf(extracted.out.dependencies) : ~IsLocalSpecifier(d)
LineCountsMatch ==
    /\ Len(extracted.out.files) = Len(IncludedTexts)
    /\ \A i \in DOMAIN IncludedTexts :
          extracted.out.files[i].lines =
              IF IncludedTexts[i] = <<>> THEN 1
              ELSE Len(IncludedTexts[i])
                   + Len(Flatten([j \in DOMAIN IncludedTexts[i] |->
                                     [k \in 1..IncludedTexts[i][j].breaks |-> j]]))

(***************************************************************************)
(* C21: the Dependencies of a bundle are the union of the external         *)
(* packages imported by its files (those of sub-directories included),     *)
(* without duplicates and without a specifier that starts with ./, ../, $  *)
(* or /; each file's line count is the number of its lines.  So a file     *)
(* with only a relative import gives none, and one file importing one      *)
(* external package gives exactly that package.                            *)
(***************************************************************************)
C21_DependenciesAreTheImportedPackages ==
    extracted.done =>
        /\ DependenciesAreClean
        /\ LineCountsMatch
        /\ ElementsOf(extracted.out.dependencies) =
              UNION {ExternalPackages(IncludedTexts[i]) : i \in DOMAIN IncludedTexts}

(***************************************************************************)
(* C22: reset() leaves the breaker CLOSED with failures, successes and     *)
(* lastFailureTime at zero, whatever its state was; the execute() that     *)
(* follows a reset() invokes the wrapped function, however recently the    *)
(* breaker opened.                                                         *)
(***************************************************************************)
C22_ResetClosesAndZeroes ==
    [][ /\ lastOp'.op = "reset" =>
              /\ external'.state = CLOSED
              /\ external'.failures = 0
              /\ external'.successes = 0
              /\ external'.lastFailureTime = 0
        /\ (lastOp.op = "reset" /\ lastOp'.op \in {"admit", "reject"}) =>
              /\ lastOp'.op = "admit"
              /\ fnCalls' = fnCalls + 1
              /\ pc'[lastOp'.by] = "running"
      ]_vars

\* A reset() made in the instant in which FailureThreshold calls were made.
C22_Witness ==
    /\ lastOp.op = "reset"
    /\ external = NewCircuitBreaker
    /\ fnCalls >= FailureThreshold
    /\ now = StartTime

\* A request that ended after the breaker had let it in.
CompletedThroughBreaker(r) ==
    /\ req[r].pc = "done"
    /\ req[r].result \notin {"ValidationFailed", "ServiceUnavailable"}

(***************************************************************************)
(* C23: each request completed through the facade reports exactly one      *)
(* outcome to the shared external breaker: one failure for a failed        *)
(* call_tool, one success for a successful one; so the breaker opens only  *)
(* after FailureThreshold failed requests in a row and closes from         *)
(* HALF_OPEN only after SuccessThreshold successful ones.                  *)
(***************************************************************************)
C23_OneOutcomePerRequest ==
    \A r \in Slots : CompletedThroughBreaker(r) => req[r].outcomes = 1

\* Path p is q or lies below q.
WithinSubTree(p, q) == Len(q) <= Len(p) /\ SubSeq(p, 1, Len(q)) = q
TreeCall == rop.name = "get_directory_structure"

(***************************************************************************)
(* C24: within a buildDirectoryTree call at most one listing request is    *)
(* outstanding at any moment, each is issued only when all earlier ones    *)
(* have been answered, and the listings of a directory's sub-tree are all  *)
(* made before the listing of the directory that follows it.               *)
(***************************************************************************)
C24_ListingsOneAfterAnother ==
    TreeCall =>
        /\ Cardinality(outstanding) <= 1
        /\ rpc = "await" =>
              /\ outstanding = {listed[Len(listed)]}
              /\ Len(answers) = Len(listed) - 1
        /\ rpc = "done" => outstanding = {} /\ Len(answers) = Len(listed)
        /\ \A i, j, k \in DOMAIN listed :
              (i < j /\ j < k /\ WithinSubTree(listed[k], listed[i]))
                  => WithinSubTree(listed[j], listed[i])

\* Two directories of one listing: the second is listed after the first's
\* listing has failed.
C24_Witness ==
    /\ TreeCall /\ rpc = "await" /\ Len(listed) >= 3
    /\ Pop(listed[Len(listed)]) = Pop(listed[Len(listed) - 1])
    /\ answers[Len(answers)].settle = "rejected"
    /\ outstanding = {listed[Len(listed)]}

\* The identifiers a text binds by named imports, and its markup tags.
StartsUpperCase(name) == name # "" /\ OneOf(SubSeq(name, 1, 1), UpperCase)
NamedImports(code) ==
    UNION {ElementsOf(code[i].names) :
              i \in {j \in DOMAIN code : code[j].kind = "import" /\ code[j].braces}}
TagNames(code) ==
    {code[i].names[1] : i \in {j \in DOMAIN code : code[j].kind = "tag"}}

(***************************************************************************)
(* C25: for every file of a block, extractComponentUsage returns without   *)
(* duplicates exactly the named-import identifiers and the markup tag      *)
(* names that start with an upper-case letter; an identifier that starts   *)
(* with anything else is never returned.                                   *)
(***************************************************************************)
C25_OnlyUpperCaseNames ==
    (extracted.done /\ extracted.kind # "svelte-component") =>
        \A i \in DOMAIN IncludedTexts :
            LET used == extracted.out.files[i].componentsUsed
            IN /\ NoDuplicates(used)
               /\ \A n \in ElementsOf(used) : StartsUpperCase(n)
               /\ ElementsOf(used) =
                     {n \in NamedImports(IncludedTexts[i]) \cup TagNames(IncludedTexts[i]) :
                         StartsUpperCase(n)}

(***************************************************************************)
(* C26: in every reachable state of a CircuitBreaker, whatever the order   *)
(* of admissions, completions and reset(): successes is zero unless the    *)
(* state is HALF_OPEN and is always below successThreshold, and in CLOSED  *)
(* failures is below failureThreshold.                                     *)
(***************************************************************************)
C26_CountersWithinThresholds ==
    /\ (external.state # HALF_OPEN => external.successes = 0)
    /\ external.successes < SuccessThreshold
    /\ (external.state = CLOSED => external.failures < FailureThreshold)

\* A success has been counted in HALF_OPEN and the breaker waits for the next.
C26_Witness ==
    /\ external.state = HALF_OPEN
    /\ external.successes = SuccessThreshold - 1
    /\ lastOp.op = "success"

(***************************************************************************)
(* C27: a call admitted earlier that completes successfully while the      *)
(* breaker is OPEN leaves it OPEN: the step zeroes failures and changes    *)
(* neither lastFailureTime nor successes.                                  *)
(***************************************************************************)
C27_SuccessWhileOpenStaysOpen ==
    [][(external.state = OPEN /\ lastOp'.op = "success") =>
          /\ external'.state = OPEN
          /\ external'.failures = 0
          /\ external'.lastFailureTime = external.lastFailureTime
          /\ external'.successes = external.successes]_vars

\* The last step was such a success: the breaker is OPEN with no failure
\* counted, which only a success in OPEN produces.
C27_Witness ==
    /\ lastOp.op = "success"
    /\ external.state = OPEN
    /\ external.failures = 0
    /\ external.lastFailureTime > 0

\* The request slot r sends passes validateAndSanitizeParams.
PassesValidation(q) ==
    validateAndSanitizeParams(q.method, ParamsOf(q.method, q.name, q.arg)).ok

(***************************************************************************)
(* C28: while the external breaker is OPEN and its timeout has not         *)
(* elapsed, every request handleRequest receives that passes validation    *)
(* ends with the service-unavailable failure and its handler is not run,   *)
(* whatever the method, the four list methods included.                    *)
(***************************************************************************)
C28_OpenBreakerRefusesEveryMethod ==
    [][\A r \in Slots :
          (/\ external.state = OPEN
           /\ now - external.lastFailureTime < Timeout
           /\ lastOp'.op = "request" /\ lastOp'.by = r
           /\ PassesValidation(req'[r])) =>
              /\ req'[r].pc = "done"
              /\ req'[r].result = "ServiceUnavailable"
              /\ ~req'[r].handler
              /\ external' = external]_vars

\* A list request has just been refused by the breaker still inside its timeout.
C28_Witness ==
    /\ external.state = OPEN
    /\ now - external.lastFailureTime < Timeout
    /\ lastOp = [op |-> "request", by |-> 1]
    /\ req[1].method \in ListMethods
    /\ req[1].pc = "done"
    /\ req[1].result = "ServiceUnavailable"

\* The failures of a handler that has made no remote request.
LocalFailures == {"ToolNotFound", "PromptNotFound", "NotFound"}

(***************************************************************************)
(* C29: a request that passes validation and fails without a remote call   *)
(* (unknown tool, unknown prompt, unknown resource URI) is counted as a    *)
(* failure by the external breaker: failures grows by one, lastFailureTime *)
(* becomes the current time, and the failure that reaches failureThreshold *)
(* in CLOSED opens the breaker.                                            *)
(***************************************************************************)
C29_LocalFailuresAreCounted ==
    [][\A r \in Slots :
          (/\ req[r].pc = "outer" /\ req'[r].pc = "done"
           /\ req[r].settled \in LocalFailures
           /\ req[r].remote = 0) =>
              /\ PassesValidation(req[r])
              /\ req'[r].result = req[r].settled
              /\ external'.failures = external.failures + 1
              /\ external'.lastFailureTime = now
              /\ (external.state = CLOSED /\ external.failures + 1 >= FailureThreshold)
                    => external'.state = OPEN]_vars

\* failureThreshold requests in a row, none of which made a remote request,
\* have opened the breaker; no other request was ever sent.
C29_Witness ==
    /\ external.state = OPEN
    /\ external.failures = FailureThreshold
    /\ streak = FailureThreshold
    /\ lastOp = [op |-> "failure", by |-> 1]
    /\ req[1].pc = "done" /\ req[1].result \in LocalFailures /\ req[1].remote = 0
    /\ \A r \in Slots \ {1} : req[r] = IdleRequest

\* The breaker is OPEN and the modelled window leaves room for a recovery:
\* the clock can still pass the timeout and SuccessThreshold calls can be made.
OpenAndCanRecover ==
    /\ external.state = OPEN
    /\ external.lastFailureTime + Timeout <= MaxTime
    /\ fnCalls + SuccessThreshold <= MaxCalls

\* A wrapped call has failed, or reset() was called.
Interrupted == lastOp.op \in {"failure", "reset"}

(***************************************************************************)
(* C30: once the breaker is OPEN, if no further wrapped call fails, time   *)
(* passes the timeout and callers keep calling execute() with functions    *)
(* that succeed, the breaker becomes HALF_OPEN and then CLOSED; it stays   *)
(* neither OPEN nor HALF_OPEN forever.                                     *)
(***************************************************************************)
C30_RecoveryIsReached ==
    /\ OpenAndCanRecover ~> (external.state = HALF_OPEN \/ Interrupted)
    /\ OpenAndCanRecover ~> (external.state = CLOSED \/ Interrupted)

\* A recovery under way: the breaker opened, the timeout passed, a call was
\* let through and succeeded, and the call that will close it is running.
C30_Witness ==
    /\ external.state = HALF_OPEN
    /\ external.successes = SuccessThreshold - 1
    /\ external.failures = 0
    /\ now - external.lastFailureTime >= Timeout
    /\ lastOp.op = "admit"
    /\ pc[lastOp.by] = "running"

====
